---- MODULE Spec2Model ----
(***************************************************************************)
(* A model of wolfrisk: the board (owner and army count per territory),    *)
(* the card manager, the trade valuation, the combat odds and the turn     *)
(* engine of GameManager (src/src/main.rs, src/src/board.rs).              *)
(***************************************************************************)
EXTENDS Integers, Sequences, FiniteSets, TLC

VARIABLES
    players,          \* GameManager.players: player id -> the temper of the player
    num_players,      \* StandardGameBoard.num_players
    territories,      \* StandardGameBoard.territories: [0..41 -> [owner, armies]]
    cards,            \* CardManager.cards: the catalog, card id -> Card
    available,        \* CardManager.available
    discarded,        \* CardManager.discarded
    player_cards,     \* CardManager.player_cards: player id -> set of card ids
    curr_player,      \* GameManager.curr_player
    turn,             \* local `turn` of GameManager::run
    pc,               \* position of GameManager::run
    trade_necessary,  \* local of process_trade
    reinf,            \* local `reinf` of process_trade (the bonus of the trades)
    reinf_amt,        \* local of process_reinforcement
    attack_info,      \* local of process_attack: the working map
    conquered_one,    \* local of process_attack
    last,             \* the last decision the engine handled, and what it did
    probe             \* the last direct call of a query, and its result

boardVars == <<players, num_players, territories>>
cardVars == <<cards, available, discarded, player_cards>>
engineVars == <<curr_player, turn, pc, trade_necessary, reinf, reinf_amt,
                attack_info, conquered_one, last>>
vars == <<boardVars, cardVars, engineVars, probe>>

----------------------------------------------------------------------------
(* Bounds of the model. *)

\* the players of a game are 2..MaxPlayers
MaxPlayers == 2
\* direct calls of the trade queries use the territory cards below this id
MaxTradeTerr == 2
\* the random source of new_game is one of the seeds 0..MaxSeed
MaxSeed == 0
\* the proposals of a player name the territories 0..MaxFocus
MaxFocus == 1
\* an attack proposal asks for 0..MaxAttackAmount armies
MaxAttackAmount == 4
\* in the first-turn runs the proposals name the territories 0..MaxAttackTerr
MaxAttackTerr == 4
\* the direct calls of the board name the territories 0..MaxBoardTerr and
\* army counts 0..MaxBoardArmies
MaxBoardTerr == 1
MaxBoardArmies == 3

MaxStrayTerr == 2

MaxRoll == 3

MaxHandId == 6
\* a fortify proposal moves 0..MaxMoveAmount armies
MaxMoveAmount == 3
\* the boards of the direct battles: armies on the origin and on the target
MaxOriginArmies == 6
MaxTargetArmies == 3
\* a card drawn at the end of an attack phase is a wild or a territory card
\* with an id in 0..MaxDrawId
MaxDrawId == 4
\* a bold player proposes anything it likes in the turns up to MaxBoldTurns
MaxBoldTurns == 3
\* a steady player attacks and trades in the turns up to MaxSteadyTurns
MaxSteadyTurns == 11
\* direct calls of the card manager use a catalog of 0..MaxCatalog cards
MaxCatalog == 3

(* Program constants. *)
NUM_TERRITORIES == 42
MAX_NUM_TURNS == 20
NUM_WILD == 2

Territories == 0 .. (NUM_TERRITORIES - 1)

----------------------------------------------------------------------------
(* Cards (main.rs 144-193). *)

CardSymbol == {"Infantry", "Cavalry", "Artillery"}

from_usize(x) ==
    CASE x = 0 -> "Infantry"
      [] x = 1 -> "Cavalry"
      [] x = 2 -> "Artillery"

\* Card::Territory(terr, sym) and Card::Wild, as records of one shape.
TerritoryCard(terr, sym) == [kind |-> "Territory", terr |-> terr, sym |-> sym]
Wild == [kind |-> "Wild", terr |-> -1, sym |-> "None"]

is_wild(card) == card.kind = "Wild"

\* Option<CardSymbol>: "None" for a wild
get_symbol(card) == IF card.kind = "Territory" THEN card.sym ELSE "None"

\* Option<TerritoryId>: -1 for a wild
get_territory(card) == IF card.kind = "Territory" THEN card.terr ELSE -1

\* the catalog built by standard_card_manager for a symbol offset
standard_cards(offset) ==
    [i \in 0 .. (NUM_TERRITORIES + NUM_WILD - 1) |->
        IF i < NUM_TERRITORIES
        THEN TerritoryCard(i, from_usize((i + offset) % 3))
        ELSE Wild]

----------------------------------------------------------------------------
(* Trade (main.rs 37-142).  A trade is a triple of CardAndId = <<card, id>>. *)

cards_as_tuple(trade) == <<trade[1][1], trade[2][1], trade[3][1]>>

num_wild(trade) == Cardinality({i \in 1..3 : is_wild(trade[i][1])})

\* a variant that takes no wild for a set
contains_wild_never(trade) == FALSE

contains_wild(trade) == num_wild(trade) > 0

\* a variant that takes only three of a kind for a set without wilds
is_non_wild_set_of_a_kind(trade) ==
    LET t == cards_as_tuple(trade) IN
    /\ \A i \in 1..3 : t[i].kind = "Territory"
    /\ t[1].sym = t[2].sym /\ t[2].sym = t[3].sym

is_non_wild_set(trade) ==
    LET t == cards_as_tuple(trade) IN
    IF \A i \in 1..3 : t[i].kind = "Territory"
    THEN IF t[1].sym = t[2].sym /\ t[2].sym = t[3].sym
         THEN TRUE
         ELSE IF t[1].sym # t[2].sym /\ t[2].sym # t[3].sym /\ t[1].sym # t[3].sym
              THEN TRUE
              ELSE FALSE
    ELSE FALSE

is_set(trade) == contains_wild(trade) \/ is_non_wild_set(trade)

\* a variant with the values of Cavalry and Artillery swapped
value_for_uniform_set_swapped(x) ==
    CASE x = "Infantry" -> 4
      [] x = "Cavalry" -> 8
      [] x = "Artillery" -> 6

value_for_uniform_set(x) ==
    CASE x = "Infantry" -> 4
      [] x = "Cavalry" -> 6
      [] x = "Artillery" -> 8

\* index (0-based) of the first wild, as value() picks it; 2 when neither of
\* the first two cards is wild
first_wild(t) == IF is_wild(t[1]) THEN 0 ELSE IF is_wild(t[2]) THEN 1 ELSE 2

\* the two other cards compared by value() for a trade with a wild
other_cards_equal(t) ==
    LET i == first_wild(t) IN t[((i + 1) % 3) + 1] = t[((i + 2) % 3) + 1]

\* value() aborts on the .expect of line 121 when the card it takes the
\* symbol of is a wild
value_aborts(trade) ==
    LET t == cards_as_tuple(trade) IN
    /\ is_set(trade)
    /\ ~(\A i \in 1..3 : t[i].kind = "Territory")
    /\ num_wild(trade) # 2
    /\ other_cards_equal(t)
    /\ get_symbol(t[((first_wild(t) + 1) % 3) + 1]) = "None"

\* the value returned by value(); 0 stands in where value() aborts
value(trade) ==
    LET t == cards_as_tuple(trade) IN
    IF ~is_set(trade)
    THEN 0
    ELSE IF \A i \in 1..3 : t[i].kind = "Territory"
         THEN IF t[1].sym = t[2].sym /\ t[2].sym = t[3].sym
              THEN value_for_uniform_set(t[1].sym)
              ELSE IF t[1].sym # t[2].sym /\ t[2].sym # t[3].sym /\ t[1].sym # t[3].sym
                   THEN 10
                   ELSE 0
         ELSE IF num_wild(trade) = 2
              THEN 10
              ELSE IF other_cards_equal(t)
                   THEN IF value_aborts(trade)
                        THEN 0
                        ELSE value_for_uniform_set(
                                 get_symbol(t[((first_wild(t) + 1) % 3) + 1]))
                   ELSE 10

----------------------------------------------------------------------------
(* The map (board.rs 60-101, 244-295). *)

\* StandardTerritory::neighbors, by territory id
neighbors(t) ==
    CASE t = 0 -> <<1, 4, 5>>
      [] t = 1 -> <<0, 2, 3, 4, 12>>
      [] t = 2 -> <<1, 4, 26>>
      [] t = 3 -> <<1, 5>>
      [] t = 4 -> <<0, 1, 2, 26, 28, 39>>
      [] t = 5 -> <<0, 1, 3>>
      [] t = 6 -> <<7, 8, 12, 16, 27>>
      [] t = 7 -> <<6, 8, 13, 14, 15, 16>>
      [] t = 8 -> <<6, 7, 12, 14>>
      [] t = 9 -> <<11, 13, 15, 17>>
      [] t = 10 -> <<11, 13>>
      [] t = 11 -> <<9, 10, 17, 29>>
      [] t = 12 -> <<1, 2, 6, 8, 26, 27>>
      [] t = 13 -> <<7, 9, 10, 11, 15>>
      [] t = 14 -> <<7, 8, 19>>
      [] t = 15 -> <<7, 9, 13, 16, 17>>
      [] t = 16 -> <<6, 7, 15, 27>>
      [] t = 17 -> <<9, 11, 15>>
      [] t = 18 -> <<20, 21>>
      [] t = 19 -> <<14, 20, 21>>
      [] t = 20 -> <<18, 19, 21>>
      [] t = 21 -> <<18, 19, 20>>
      [] t = 22 -> <<23, 24, 25, 28>>
      [] t = 23 -> <<22, 25, 33>>
      [] t = 24 -> <<22, 25, 26, 27, 28>>
      [] t = 25 -> <<22, 23, 24, 27>>
      [] t = 26 -> <<2, 4, 12, 24, 27, 28>>
      [] t = 27 -> <<6, 12, 16, 24, 25, 26>>
      [] t = 28 -> <<4, 22, 24, 26>>
      [] t = 29 -> <<11, 30, 34>>
      [] t = 30 -> <<29, 34, 35, 37>>
      [] t = 31 -> <<32, 37, 41>>
      [] t = 32 -> <<31, 35, 36, 37>>
      [] t = 33 -> <<23, 34, 35, 36>>
      [] t = 34 -> <<29, 30, 33, 35>>
      [] t = 35 -> <<30, 32, 33, 34, 36, 37>>
      [] t = 36 -> <<32, 33, 35>>
      [] t = 37 -> <<30, 31, 32, 35>>
      [] t = 38 -> <<39, 40>>
      [] t = 39 -> <<4, 38, 40, 41>>
      [] t = 40 -> <<38, 39, 41>>
      [] t = 41 -> <<31, 39, 40>>

Reverse(s) == [i \in 1 .. Len(s) |-> s[Len(s) + 1 - i]]

RECURSIVE SourcesOf(_, _)
\* the territories s <= hi whose neighbors() list names t, highest first
SourcesOf(t, hi) ==
    IF hi < 0
    THEN <<>>
    ELSE (IF \E k \in 1 .. Len(neighbors(hi)) : neighbors(hi)[k] = t
          THEN <<hi>> ELSE <<>>) \o SourcesOf(t, hi - 1)

\* a variant whose walk goes over the edges leaving t only
standard_map_outgoing == [t \in Territories |-> Reverse(neighbors(t))]

\* standard_map() adds one edge (i, n) for every i and every n of
\* neighbors(i), so an adjacency listed on both sides is two parallel edges.
\* The neighbor walk of a node t goes over the edges leaving t and then the
\* edges entering t, latest added first, and yields one entry per edge; a
\* node index outside the graph has no edges.
standard_map ==
    [t \in Territories |-> Reverse(neighbors(t)) \o SourcesOf(t, NUM_TERRITORIES - 1)]

get_neighbors(t) == IF t \in Territories THEN standard_map[t] ELSE <<>>

are_adjacent(a, b) ==
    LET ns == get_neighbors(a) IN \E k \in 1 .. Len(ns) : ns[k] = b

----------------------------------------------------------------------------
(* Continents (board.rs 104-136). *)

Continent == {"Australia", "SouthAmerica", "Africa", "Europe", "NorthAmerica", "Asia"}

get_range(c) ==
    CASE c = "Africa" -> 0 .. 5
      [] c = "Asia" -> 6 .. 17
      [] c = "Australia" -> 18 .. 21
      [] c = "Europe" -> 22 .. 28
      [] c = "NorthAmerica" -> 29 .. 37
      [] c = "SouthAmerica" -> 38 .. 41

get_bonus(c) ==
    CASE c = "Australia" -> 2
      [] c = "SouthAmerica" -> 2
      [] c = "Africa" -> 3
      [] c = "Europe" -> 5
      [] c = "NorthAmerica" -> 5
      [] c = "Asia" -> 7

----------------------------------------------------------------------------
(* The board (board.rs 17-58, 299-451).  A board b is the array            *)
(* `territories`: territory id -> [owner, armies].                         *)

RECURSIVE SumOver(_, _)
\* the sum of f[x] over the finite set S
SumOver(f, S) ==
    IF S = {}
    THEN 0
    ELSE LET x == CHOOSE y \in S : TRUE IN f[x] + SumOver(f, S \ {x})

Max(a, b) == IF a > b THEN a ELSE b

get_owner(b, terr) == b[terr].owner

get_num_armies(b, terr) == b[terr].armies

get_num_owned_territories(b, player) ==
    Cardinality({i \in Territories : player = b[i].owner})

\* a variant whose loop starts at territory 1
get_owned_territories_from_1(b, player) ==
    {i \in 1 .. (NUM_TERRITORIES - 1) : player = b[i].owner}

\* the Vec of get_owned_territories is in increasing id order; its set
get_owned_territories(b, player) == {i \in Territories : player = b[i].owner}

player_owns_continent(b, player, continent) ==
    \A i \in get_range(continent) : get_owner(b, i) = player

get_continent_bonuses(b, player) ==
    SumOver([c \in Continent |->
                IF player_owns_continent(b, player, c) THEN get_bonus(c) ELSE 0],
            Continent)

\* a variant without the minimum of 3
get_territory_reinforcements_no_floor(b, player) ==
    (get_num_owned_territories(b, player) % 3) + get_continent_bonuses(b, player)

get_territory_reinforcements(b, player) ==
    LET num_terr == get_num_owned_territories(b, player)
        continent_bonuses == get_continent_bonuses(b, player)
    IN Max(num_terr % 3, 3) + continent_bonuses

is_enemy_territory(b, player, tid) == get_owner(b, tid) # player

\* set_territory panics for an owner above num_players
set_territory_aborts(n, owner) == owner > n

set_territory(b, terr, owner, armies) ==
    [b EXCEPT ![terr] = [owner |-> owner, armies |-> armies]]

\* a variant that adds to the owner's record only, not to the armies
add_armies_dropped(b, tid, add) ==
    [b EXCEPT ![tid] = [owner |-> b[tid].owner, armies |-> b[tid].armies]]

add_armies(b, tid, add) ==
    set_territory(b, tid, get_owner(b, tid), get_num_armies(b, tid) + add)

\* a variant that removes without looking at what is there
remove_armies_aborts_never(b, tid, remove) == FALSE

\* remove_armies panics when asked to remove more than there is
remove_armies_aborts(b, tid, remove) == remove > get_num_armies(b, tid)

\* a variant that removes one army whatever it is asked to remove
remove_armies_one(b, tid, remove) ==
    set_territory(b, tid, get_owner(b, tid), get_num_armies(b, tid) - 1)

remove_armies(b, tid, remove) ==
    set_territory(b, tid, get_owner(b, tid), get_num_armies(b, tid) - remove)

\* a variant that stops at the first territory of the owner of territory 0
game_is_over_first_match(b) ==
    \E i \in 1 .. (NUM_TERRITORIES - 1) : get_owner(b, i) = get_owner(b, 0)

game_is_over(b) ==
    \A i \in 1 .. (NUM_TERRITORIES - 1) : get_owner(b, i) = get_owner(b, 0)

\* a variant that finds no player defeated
player_is_defeated_never(b, player) == FALSE

player_is_defeated(b, player) ==
    \A i \in Territories : player # b[i].owner

RECURSIVE distrib_from(_, _, _, _, _)
\* the loop of distrib_terr_randomly from territory i on, with the current
\* player_pool; rolls[i] is the random number drawn for territory i
distrib_from(n, rolls, i, pool, terrs) ==
    IF i = NUM_TERRITORIES
    THEN terrs
    ELSE LET player_pool == IF Len(pool) = 0 THEN [k \in 1 .. n |-> k - 1] ELSE pool
             rand_player == rolls[i] % Len(player_pool)
             rest == [k \in 1 .. (Len(player_pool) - 1) |->
                         IF k <= rand_player THEN player_pool[k] ELSE player_pool[k + 1]]
         IN distrib_from(n, rolls, i + 1, rest,
                [terrs EXCEPT ![i] = [owner |-> player_pool[rand_player + 1],
                                      armies |-> terrs[i].armies]])

\* a variant that draws every owner from all the players
distrib_terr_with_replacement(n, rolls) ==
    [i \in Territories |-> [owner |-> rolls[i] % n, armies |-> 1]]

distrib_terr_randomly(n, rolls) ==
    distrib_from(n, rolls, 0, [k \in 1 .. n |-> k - 1],
                 [i \in Territories |-> [owner |-> 0, armies |-> 1]])

----------------------------------------------------------------------------
(* The card manager (main.rs 372-480).  Its mutable state cm is the record *)
(* [available, discarded, player_cards]; the catalog never changes.        *)

\* a variant that puts the id on the discard pile whether it was held or not
player_discard_card_unchecked(cm, player, cid) ==
    [cm EXCEPT !.player_cards[player] = @ \ {cid},
               !.discarded = @ \cup {cid}]

player_discard_card(cm, player, cid) ==
    IF cid \in cm.player_cards[player]
    THEN [cm EXCEPT !.player_cards[player] = @ \ {cid},
                    !.discarded = @ \cup {cid}]
    ELSE cm

get_player_cards(catalog, cm, player) ==
    {<<catalog[id], id>> : id \in cm.player_cards[player]}

get_num_player_cards(cm, player) == Cardinality(cm.player_cards[player])

recycle_discard_pile(cm) ==
    [cm EXCEPT !.available = @ \cup cm.discarded, !.discarded = {}]

\* the state in which draw_random_for_player picks its card
before_draw(cm) ==
    IF Cardinality(cm.available) = 0 THEN recycle_discard_pile(cm) ELSE cm

\* the card ids cids[0] can be after the shuffle
draw_choices(cm) == before_draw(cm).available

\* cids[0] panics on an empty list
draw_aborts(cm) == draw_choices(cm) = {}

\* draw_random_for_player when the shuffle puts `pick` first
draw_random_for_player(cm, player, pick) ==
    [before_draw(cm) EXCEPT !.player_cards[player] = @ \cup {pick}]

\* a variant that looks at the ids only, not at the claimed cards
player_has_3_cards_by_id(catalog, cm, player, trade) ==
    /\ player \in DOMAIN cm.player_cards
    /\ \A i \in 1..3 : trade[i][2] \in cm.player_cards[player]

player_has_3_cards(catalog, cm, player, trade) ==
    /\ player \in DOMAIN cm.player_cards
    /\ \A i \in 1..3 :
          LET cid == trade[i][2] IN
          ~(cid \notin cm.player_cards[player] \/ trade[i][1] # catalog[cid])

----------------------------------------------------------------------------
(* Combat (main.rs 18-33, 482-500, 741-802).  A roll in [0, 1) is held in  *)
(* units of 1/10000, like the odds.                                        *)

max_allowed(max, pool) == IF pool > max THEN max ELSE pool

attacking_allowed(pool) == max_allowed(3, pool)

defending_allowed(pool) == max_allowed(2, pool)

\* Option<[f64; 2]>: <<>> is None
one_rolled_1(attacker, defender) ==
    CASE attacker = 1 /\ defender = 1 -> <<5833, 4167>>
      [] attacker = 2 /\ defender = 1 -> <<4213, 5787>>
      [] attacker = 3 /\ defender = 1 -> <<3403, 6597>>
      [] attacker = 1 /\ defender = 2 -> <<7454, 2546>>
      [] OTHER -> <<>>

\* Option<[f64; 3]>: <<>> is None
both_rolled_at_least_2(attacker, defender) ==
    CASE attacker = 2 /\ defender = 2 -> <<4483, 2276, 3241>>
      [] attacker = 3 /\ defender = 2 -> <<2926, 3717, 3358>>
      [] OTHER -> <<>>

\* the odds perform_battle unwraps for the pools
battle_dist(amount_attacking, amount_defending) ==
    IF amount_defending = 1 \/ amount_attacking = 1
    THEN one_rolled_1(amount_attacking, amount_defending)
    ELSE both_rolled_at_least_2(amount_attacking, amount_defending)

\* a variant where a roll equal to a threshold selects the later outcome
battle_outcome_strict(amount_attacking, amount_defending, roll) ==
    LET dist == battle_dist(amount_attacking, amount_defending) IN
    IF amount_defending = 1 \/ amount_attacking = 1
    THEN IF roll < dist[1] THEN <<1, 0>> ELSE <<0, 1>>
    ELSE IF roll < dist[1]
         THEN <<2, 0>>
         ELSE IF roll < dist[1] + dist[2]
              THEN <<0, 2>>
              ELSE <<1, 1>>

\* (attacker losses, defender losses) of perform_battle for a roll
battle_outcome(amount_attacking, amount_defending, roll) ==
    LET dist == battle_dist(amount_attacking, amount_defending) IN
    IF amount_defending = 1 \/ amount_attacking = 1
    THEN IF roll <= dist[1] THEN <<1, 0>> ELSE <<0, 1>>
    ELSE IF roll <= dist[1]
         THEN <<2, 0>>
         ELSE IF roll > dist[1] /\ roll <= dist[1] + dist[2]
              THEN <<0, 2>>
              ELSE <<1, 1>>

\* perform_battle: [aborted, board, conquered, outcome, must_commit]
perform_battle(b, attack, roll) ==
    LET num_enemy_armies == get_num_armies(b, attack.target)
        amount_defending == defending_allowed(num_enemy_armies)
        amount_attacking == attack.amount_attacking
        dist == battle_dist(amount_attacking, amount_defending)
    IN
    IF dist = <<>>
    THEN [aborted |-> TRUE, board |-> b, conquered |-> FALSE,
          outcome |-> <<0, 0>>, must_commit |-> 0]
    ELSE
    LET outcome == battle_outcome(amount_attacking, amount_defending, roll)
        must_commit == amount_attacking - outcome[1]
        abort1 == outcome[1] > 0 /\ remove_armies_aborts(b, attack.origin, outcome[1])
        b1 == IF outcome[1] > 0 /\ ~abort1
              THEN remove_armies(b, attack.origin, outcome[1]) ELSE b
        abort2 == ~abort1 /\ outcome[2] > 0
                  /\ remove_armies_aborts(b1, attack.target, outcome[2])
        b2 == IF outcome[2] > 0 /\ ~abort1 /\ ~abort2
              THEN remove_armies(b1, attack.target, outcome[2]) ELSE b1
        conquered == ~abort1 /\ ~abort2 /\ get_num_armies(b2, attack.target) = 0
        abort3 == conquered /\ remove_armies_aborts(b2, attack.origin, must_commit)
        b3 == IF conquered /\ ~abort3
              THEN add_armies(remove_armies(b2, attack.origin, must_commit),
                              attack.target, must_commit)
              ELSE b2
    IN [aborted |-> abort1 \/ abort2 \/ abort3, board |-> b3,
        conquered |-> conquered /\ ~abort3,
        outcome |-> outcome, must_commit |-> must_commit]

----------------------------------------------------------------------------
(* The turn engine (main.rs 502-837). *)

CM == [available |-> available, discarded |-> discarded, player_cards |-> player_cards]

next_player == (curr_player + 1) % Cardinality(DOMAIN players)

\* a decision handled by the engine, kept in `last`
Event(op, player, accepted) ==
    [op |-> op, player |-> player, accepted |-> accepted,
     origin |-> -1, target |-> -1, amount |-> 0,
     att_loss |-> 0, def_loss |-> 0, conquered |-> FALSE, card |-> -1]

verify_trade_some(catalog, cm, player, trade) ==
    player_has_3_cards(catalog, cm, player, trade) /\ is_set(trade)

\* a variant that lets the player decline a mandatory trade
verify_trade_none_lenient(necessary) == TRUE

verify_trade_none(necessary) == ~necessary

\* a Reinforcement is a function: territory id -> armies
verify_reinf_aborts(chosen) == \E terr \in DOMAIN chosen : terr \notin Territories

\* a variant that does not add up the distribution
verify_reinf_any_total(b, player, amt, chosen) ==
    \A terr \in DOMAIN chosen : ~is_enemy_territory(b, player, terr)

verify_reinf(b, player, amt, chosen) ==
    /\ \A terr \in DOMAIN chosen : ~is_enemy_territory(b, player, terr)
    /\ SumOver(chosen, DOMAIN chosen) = amt

\* get_owner(origin) indexes the board, and armies - 1 underflows on 0
verify_battle_aborts(b, attack) ==
    \/ attack.origin \notin Territories
    \/ get_num_armies(b, attack.origin) = 0

\* a variant that lets every army of the origin attack
verify_battle_all_in(b, player, attack) ==
    LET can_attack_with == get_num_armies(b, attack.origin) IN
    /\ get_owner(b, attack.origin) = player
    /\ can_attack_with >= attack.amount_attacking
    /\ are_adjacent(attack.origin, attack.target)
    /\ is_enemy_territory(b, player, attack.target)

\* a variant that does not ask who owns the origin
verify_battle_from_any(b, player, attack) ==
    LET can_attack_with == get_num_armies(b, attack.origin) - 1 IN
    /\ can_attack_with >= attack.amount_attacking
    /\ are_adjacent(attack.origin, attack.target)
    /\ is_enemy_territory(b, player, attack.target)

verify_battle(b, player, attack) ==
    LET can_attack_with == get_num_armies(b, attack.origin) - 1 IN
    /\ get_owner(b, attack.origin) = player
    /\ can_attack_with >= attack.amount_attacking
    /\ are_adjacent(attack.origin, attack.target)
    /\ is_enemy_territory(b, player, attack.target)

RECURSIVE trade_cards(_, _, _, _, _)
\* the loop of perform_trade from card i on: [board, cm]
trade_cards(b, cm, player, trade, i) ==
    IF i > 3
    THEN [board |-> b, cm |-> cm]
    ELSE LET cm1 == player_discard_card(cm, player, trade[i][2])
             tid == get_territory(trade[i][1])
             b1 == IF tid # -1 /\ get_owner(b, tid) = player
                   THEN add_armies(b, tid, 2)
                   ELSE b
         IN trade_cards(b1, cm1, player, trade, i + 1)

\* perform_trade: [board, cm, value, aborted]
perform_trade(b, cm, player, trade) ==
    LET r == trade_cards(b, cm, player, trade, 1) IN
    [board |-> r.board, cm |-> r.cm, value |-> value(trade),
     aborted |-> value_aborts(trade)]

\* the reinforcements of verify-passed `chosen` applied (main.rs 639-649)
apply_reinf(b, chosen) ==
    [t \in Territories |->
        IF t \in DOMAIN chosen /\ chosen[t] > 0
        THEN [owner |-> get_owner(b, t), armies |-> get_num_armies(b, t) + chosen[t]]
        ELSE b[t]]

SelectEnemies(b, curr_id, s) ==
    SelectSeq(s, LAMBDA tid : is_enemy_territory(b, curr_id, tid))

\* the working map of process_attack: territory id -> AttackTerritoryInfo
generate_adj_enemy_info(b, curr_id) ==
    [terr \in get_owned_territories(b, curr_id) |->
        [id |-> terr,
         armies |-> get_num_armies(b, terr),
         adj_enemies |-> SelectEnemies(b, curr_id, get_neighbors(terr))]]

\* adj_enemies.remove(ind) for the last index holding the target
remove_conquered(adj, target) ==
    LET idxs == {i \in 1 .. Len(adj) : adj[i] = target} IN
    IF idxs = {}
    THEN adj
    ELSE LET ind == CHOOSE i \in idxs : \A j \in idxs : j <= i
         IN [k \in 1 .. (Len(adj) - 1) |-> IF k < ind THEN adj[k] ELSE adj[k + 1]]

\* the update of the origin's entry after a battle; unwrap() of a missing
\* entry panics
update_origin_aborts(info, b, origin) ==
    get_num_armies(b, origin) # 1 /\ origin \notin DOMAIN info

\* a variant that leaves the entry of the origin as it was
update_origin_kept(info, b, origin) == info

update_origin(info, b, origin) ==
    IF get_num_armies(b, origin) = 1
    THEN [t \in (DOMAIN info) \ {origin} |-> info[t]]
    ELSE [info EXCEPT ![origin].armies = get_num_armies(b, origin)]

update_conquered(info, target) ==
    [t \in DOMAIN info |->
        [info[t] EXCEPT !.adj_enemies = remove_conquered(@, target)]]

----------------------------------------------------------------------------
(* The collaborators: what the random source and the players may answer.   *)

\* the numbers the random source of seed `seed` gives distrib_terr_randomly
seed_rolls(seed) == [i \in Territories |-> seed * (1 + (i \div 2))]

\* the symbol offset the random source of seed `seed` gives
seed_offset(seed) == seed % 3

\* the rolls of a battle with the odds dist: the ends of [0, 1) and both
\* sides of every threshold
Rolls(dist) ==
    {0, 9999}
    \cup (IF Len(dist) >= 2 THEN {dist[1], dist[1] + 1} ELSE {})
    \cup (IF Len(dist) >= 3 THEN {dist[1] + dist[2], dist[1] + dist[2] + 1} ELSE {})

\* The temper of a player.  A bold player proposes anything within the
\* bounds, valid or not, in the turns up to MaxBoldTurns.  A steady player
\* is RandomPlayer with param_attack = 0 in the turns up to MaxSteadyTurns:
\* it attacks with all it may while it can, and it tries any trade; its dice
\* roll high.  A cautious player, and the others after their turns, puts its
\* reinforcements on its last territory, never attacks and proposes only
\* three different cards of its hand.
Temper == {"bold", "steady", "cautious"}

Bold(p) == players[p] = "bold" /\ turn <= MaxBoldTurns

Steady(p) == players[p] = "steady" /\ turn <= MaxSteadyTurns

\* a battle is rolled only for an attack that passed verify_battle
RollsFor(attack) ==
    IF /\ pc = "attack"
       /\ ~verify_battle_aborts(territories, attack)
       /\ verify_battle(territories, curr_player, attack)
    THEN IF Steady(curr_player)
         THEN {9999}
         ELSE Rolls(battle_dist(attack.amount_attacking,
                       defending_allowed(get_num_armies(territories, attack.target))))
    ELSE {0}

Focus == 0 .. MaxFocus

Lowest(S) == {c \in S : \A d \in S : c <= d}

Highest(S) == {c \in S : \A d \in S : d <= c}

\* the card ids the shuffle of a draw for player p may put first: the lowest
\* territory card and the first wild that p does not hold yet, and the
\* lowest card that p holds already
DrawPicks(cm, p) ==
    LET fresh == draw_choices(cm) \ cm.player_cards[p]
        held == draw_choices(cm) \cap cm.player_cards[p]
    IN Lowest({c \in fresh : c <= MaxDrawId})
       \cup {c \in fresh : c = NUM_TERRITORIES}
       \cup Lowest(held)

CardRef(id) == <<cards[id], id>>

\* a held id under a value the catalog does not give it
MadeUpRef(id) ==
    <<IF is_wild(cards[id]) THEN TerritoryCard(0, "Infantry") ELSE Wild, id>>

\* three different cards of the hand, by increasing id
ProperTrades(p) ==
    {<<CardRef(t[1]), CardRef(t[2]), CardRef(t[3])>> :
        t \in {u \in player_cards[p] \X player_cards[p] \X player_cards[p] :
                  u[1] < u[2] /\ u[2] < u[3]}}

\* one card claimed three times, a made-up value, a card that is not held
OddTrades(p) ==
    LET hand == player_cards[p]
        other == (DOMAIN cards) \ hand
    IN {<<CardRef(c), CardRef(c), CardRef(c)>> : c \in Lowest(hand) \cup Highest(hand)}
       \cup {<<MadeUpRef(c), CardRef(c), CardRef(d)>> : c \in Lowest(hand), d \in Highest(hand)}
       \cup {<<CardRef(f), CardRef(c), CardRef(d)>> :
                f \in Lowest(other), c \in Lowest(hand), d \in Highest(hand)}

TradeProposals(p) ==
    IF Bold(p) \/ Steady(p)
    THEN ProperTrades(p) \cup OddTrades(p)
    ELSE ProperTrades(p)

OnlyOn(t, amt) == [x \in {t} |-> amt]

ReinfProposals(p, amt) ==
    IF Bold(p)
    THEN {OnlyOn(t, amt) : t \in Focus}
         \cup {OnlyOn(t, amt + 1) : t \in Focus}
         \cup {[x \in {tu[1], tu[2]} |-> IF x = tu[1] THEN 1 ELSE amt - 1] :
                  tu \in {q \in Focus \X Focus : q[1] # q[2]}}
    ELSE IF Steady(p)
         THEN {OnlyOn(t, amt) : t \in Focus \cap get_owned_territories(territories, p)}
         ELSE {OnlyOn(t, amt) : t \in Highest(get_owned_territories(territories, p))}

\* the attacks of RandomPlayer::make_attack (main.rs 344-360) from and to
\* the territories of Focus
SteadyAttacks ==
    {a \in [origin : Focus, target : Focus, amount_attacking : 1 .. 3] :
        /\ a.origin \in DOMAIN attack_info
        /\ attack_info[a.origin].armies > 1
        /\ \E k \in 1 .. Len(attack_info[a.origin].adj_enemies) :
              attack_info[a.origin].adj_enemies[k] = a.target
        /\ a.amount_attacking = attacking_allowed(attack_info[a.origin].armies - 1)}

AttackProposals(p) ==
    IF Bold(p)
    THEN [origin : Focus, target : Focus, amount_attacking : 0 .. MaxAttackAmount]
    ELSE IF Steady(p) THEN SteadyAttacks ELSE {}

\* a steady player answers None only when it has no attack left
MayDecline(p) == ~Steady(p) \/ AttackProposals(p) = {}

----------------------------------------------------------------------------
(* The state after GameManager::new_game. *)

\* a fresh GameManager over board b and a CardManager::new over `catalog`,
\* with the tempers ps, standing at `at`
StartWith(ps, b, catalog, at) ==
    /\ players = ps
    /\ num_players = Cardinality(DOMAIN ps)
    /\ territories = b
    /\ cards = catalog
    /\ available = DOMAIN catalog
    /\ discarded = {}
    /\ player_cards = [p \in DOMAIN ps |-> {}]
    /\ curr_player = 0
    /\ turn = 0
    /\ pc = at
    /\ trade_necessary = FALSE
    /\ reinf = 0
    /\ reinf_amt = 0
    /\ attack_info = <<>>
    /\ conquered_one = FALSE
    /\ last = Event("new_game", 0, TRUE)
    /\ probe = [op |-> "none"]

\* the same with the deck of standard_card_manager
Start(ps, b, offset, at) == StartWith(ps, b, standard_cards(offset), at)

Tempers(n, first) == [p \in 0 .. (n - 1) |-> IF p = 0 THEN first ELSE "cautious"]

Init ==
    \E n \in 2 .. MaxPlayers, seed \in 0 .. MaxSeed, first \in {"bold", "steady"} :
        Start(Tempers(n, first), distrib_terr_randomly(n, seed_rolls(seed)),
              seed_offset(seed), "run")

----------------------------------------------------------------------------
(* GameManager::run, one action per decision point. *)

\* the head of the while loop of run() up to the first prompt of the turn
RunLoop ==
    /\ pc = "run"
    /\ last' = Event("run", curr_player, TRUE)
    /\ UNCHANGED <<boardVars, cardVars, attack_info, conquered_one, probe>>
    /\ IF game_is_over(territories)
       THEN /\ pc' = "done"
            /\ UNCHANGED <<curr_player, turn, trade_necessary, reinf, reinf_amt>>
       ELSE IF ~player_is_defeated(territories, curr_player)
            THEN /\ turn' = turn + 1
                 /\ reinf' = 0
                 /\ UNCHANGED curr_player
                 /\ IF get_num_player_cards(CM, curr_player) < 3
                    THEN /\ pc' = "reinforce"
                         /\ trade_necessary' = FALSE
                         /\ reinf_amt' =
                              get_territory_reinforcements(territories, curr_player) + 0
                    ELSE /\ pc' = "trade"
                         /\ trade_necessary' = (get_num_player_cards(CM, curr_player) > 4)
                         /\ reinf_amt' = 0
            ELSE /\ curr_player' = next_player
                 /\ pc' = "run"
                 /\ UNCHANGED <<turn, trade_necessary, reinf, reinf_amt>>

\* process_trade: the player answers None
TradeDecline ==
    /\ pc = "trade"
    /\ UNCHANGED <<boardVars, cardVars, curr_player, turn, trade_necessary, reinf,
                   attack_info, conquered_one, probe>>
    /\ IF verify_trade_none(trade_necessary)
       THEN /\ pc' = "reinforce"
            /\ reinf_amt' =
                 get_territory_reinforcements(territories, curr_player) + reinf
            /\ last' = Event("trade_none", curr_player, TRUE)
       ELSE /\ last' = Event("trade_none", curr_player, FALSE)
            /\ UNCHANGED <<pc, reinf_amt>>

\* process_trade: the player answers Some(trade)
TradePropose(trade) ==
    /\ pc = "trade"
    /\ UNCHANGED <<players, num_players, cards, curr_player, turn, trade_necessary,
                   attack_info, conquered_one, probe>>
    /\ IF verify_trade_some(cards, CM, curr_player, trade)
       THEN LET r == perform_trade(territories, CM, curr_player, trade) IN
            /\ territories' = r.board
            /\ available' = r.cm.available
            /\ discarded' = r.cm.discarded
            /\ player_cards' = r.cm.player_cards
            /\ last' = [Event("trade", curr_player, TRUE) EXCEPT !.amount = r.value]
            /\ IF r.aborted
               THEN /\ pc' = "aborted"
                    /\ UNCHANGED <<reinf, reinf_amt>>
               ELSE /\ reinf' = reinf + r.value
                    /\ IF get_num_player_cards(r.cm, curr_player) < 3
                       THEN /\ pc' = "reinforce"
                            /\ reinf_amt' =
                                 get_territory_reinforcements(r.board, curr_player)
                                 + reinf + r.value
                       ELSE UNCHANGED <<pc, reinf_amt>>
       ELSE /\ last' = Event("trade", curr_player, FALSE)
            /\ UNCHANGED <<territories, available, discarded, player_cards,
                           pc, reinf, reinf_amt>>

\* a variant that hands out the armies before it verifies the answer
Reinforce_partial(chosen) ==
    /\ pc = "reinforce"
    /\ ~verify_reinf_aborts(chosen)
    /\ UNCHANGED <<players, num_players, cardVars, curr_player, turn, trade_necessary,
                   reinf, reinf_amt, conquered_one, probe>>
    /\ territories' = apply_reinf(territories, chosen)
    /\ attack_info' =
         generate_adj_enemy_info(apply_reinf(territories, chosen), curr_player)
    /\ IF verify_reinf(territories, curr_player, reinf_amt, chosen)
       THEN pc' = "attack" /\ last' = Event("reinforce", curr_player, TRUE)
       ELSE UNCHANGED pc /\ last' = Event("reinforce", curr_player, FALSE)

\* process_reinforcement: the player answers `chosen`
Reinforce(chosen) ==
    /\ pc = "reinforce"
    /\ UNCHANGED <<players, num_players, cardVars, curr_player, turn, trade_necessary,
                   reinf, reinf_amt, conquered_one, probe>>
    /\ IF verify_reinf_aborts(chosen)
       THEN /\ pc' = "aborted"
            /\ last' = Event("reinforce", curr_player, FALSE)
            /\ UNCHANGED <<territories, attack_info>>
       ELSE IF verify_reinf(territories, curr_player, reinf_amt, chosen)
            THEN /\ territories' = apply_reinf(territories, chosen)
                 /\ attack_info' =
                      generate_adj_enemy_info(apply_reinf(territories, chosen),
                                              curr_player)
                 /\ pc' = "attack"
                 /\ last' = Event("reinforce", curr_player, TRUE)
            ELSE /\ last' = Event("reinforce", curr_player, FALSE)
                 /\ UNCHANGED <<territories, attack_info, pc>>

\* process_attack: the player answers Some(attack), and the battle rolls `roll`
AttackPropose(attack, roll) ==
    /\ pc = "attack"
    /\ UNCHANGED <<players, num_players, cardVars, curr_player, turn, trade_necessary,
                   reinf, reinf_amt, probe>>
    /\ LET ev == [Event("attack", curr_player, FALSE) EXCEPT
                     !.origin = attack.origin, !.target = attack.target,
                     !.amount = attack.amount_attacking]
       IN
       IF verify_battle_aborts(territories, attack)
       THEN /\ pc' = "aborted"
            /\ last' = ev
            /\ UNCHANGED <<territories, attack_info, conquered_one>>
       ELSE IF verify_battle(territories, curr_player, attack)
            THEN LET r == perform_battle(territories, attack, roll) IN
                 /\ territories' = r.board
                 /\ last' = [ev EXCEPT !.accepted = TRUE,
                                       !.att_loss = r.outcome[1],
                                       !.def_loss = r.outcome[2],
                                       !.conquered = r.conquered]
                 /\ IF r.aborted \/ update_origin_aborts(attack_info, r.board, attack.origin)
                    THEN /\ pc' = "aborted"
                         /\ UNCHANGED <<attack_info, conquered_one>>
                    ELSE /\ UNCHANGED pc
                         /\ conquered_one' = (conquered_one \/ r.conquered)
                         /\ attack_info' =
                              IF r.conquered
                              THEN update_conquered(
                                       update_origin(attack_info, r.board, attack.origin),
                                       attack.target)
                              ELSE update_origin(attack_info, r.board, attack.origin)
            ELSE /\ last' = Event("attack", curr_player, FALSE)
                 /\ UNCHANGED <<territories, attack_info, conquered_one, pc>>

\* process_attack: the player answers None; the card of a conquest is drawn
\* and run() goes on to the next player or stops at MAX_NUM_TURNS
AttackDecline(pick) ==
    /\ pc = "attack"
    /\ MayDecline(curr_player)
    /\ UNCHANGED <<boardVars, cards, turn, probe>>
    /\ trade_necessary' = FALSE
    /\ reinf' = 0
    /\ reinf_amt' = 0
    /\ attack_info' = <<>>
    /\ conquered_one' = FALSE
    /\ IF conquered_one
       THEN IF draw_aborts(CM)
            THEN /\ pc' = "aborted"
                 /\ last' = Event("attack_none", curr_player, TRUE)
                 /\ UNCHANGED <<available, discarded, player_cards, curr_player>>
            ELSE /\ pick \in DrawPicks(CM, curr_player)
                 /\ available' = draw_random_for_player(CM, curr_player, pick).available
                 /\ discarded' = draw_random_for_player(CM, curr_player, pick).discarded
                 /\ player_cards' =
                      draw_random_for_player(CM, curr_player, pick).player_cards
                 /\ last' = [Event("attack_none", curr_player, TRUE) EXCEPT !.card = pick]
                 /\ IF turn >= MAX_NUM_TURNS
                    THEN pc' = "done" /\ UNCHANGED curr_player
                    ELSE pc' = "run" /\ curr_player' = next_player
       ELSE /\ pick = -1
            /\ UNCHANGED <<available, discarded, player_cards>>
            /\ last' = Event("attack_none", curr_player, TRUE)
            /\ IF turn >= MAX_NUM_TURNS
               THEN pc' = "done" /\ UNCHANGED curr_player
               ELSE pc' = "run" /\ curr_player' = next_player

Next ==
    \/ RunLoop
    \/ TradeDecline
    \/ \E trade \in TradeProposals(curr_player) : TradePropose(trade)
    \/ \E chosen \in ReinfProposals(curr_player, reinf_amt) : Reinforce(chosen)
    \/ \E attack \in AttackProposals(curr_player) :
          \E roll \in RollsFor(attack) : AttackPropose(attack, roll)
    \/ \E pick \in (DOMAIN cards) \cup {-1} : AttackDecline(pick)

Spec == Init /\ [][Next]_vars

\* The players of a game answer in the end with a proposal that passes its
\* verification or with a None that is accepted, and the loop of run() goes on.
Accepted == Next /\ pc \in {"trade", "reinforce", "attack"} /\ last'.accepted

Fairness == WF_vars(RunLoop) /\ WF_vars(Accepted)

SpecFair == Spec /\ Fairness

----------------------------------------------------------------------------
(* Direct calls of Trade::is_set and Trade::value on any three cards. *)

TradeCards ==
    {TerritoryCard(t, sym) : t \in 0 .. (MaxTradeTerr - 1), sym \in CardSymbol}
    \cup {Wild}

\* the card under the id the standard deck gives it
TradeRef(card) == <<card, IF is_wild(card) THEN NUM_TERRITORIES ELSE card.terr>>

TradeInputs ==
    {<<TradeRef(c[1]), TradeRef(c[2]), TradeRef(c[3])>> :
        c \in TradeCards \X TradeCards \X TradeCards}

InitTrade ==
    Start(Tempers(2, "cautious"), distrib_terr_randomly(2, seed_rolls(0)), 0, "call")

Trade_is_set(trade) ==
    /\ pc = "call"
    /\ probe' = [op |-> "is_set", trade |-> trade, aborted |-> FALSE,
                 result |-> is_set(trade)]
    /\ UNCHANGED <<boardVars, cardVars, engineVars>>

Trade_value(trade) ==
    /\ pc = "call"
    /\ probe' = [op |-> "value", trade |-> trade, aborted |-> value_aborts(trade),
                 result |-> value(trade)]
    /\ UNCHANGED <<boardVars, cardVars, engineVars>>

NextTrade ==
    \/ \E trade \in TradeInputs : Trade_is_set(trade)
    \/ \E trade \in TradeInputs : Trade_value(trade)

SpecTrade == InitTrade /\ [][NextTrade]_vars

----------------------------------------------------------------------------
(* Direct calls of get_territory_reinforcements on the boards that
   StandardGameBoard::new builds. *)

\* player 0 holds the territories lo .. hi - 1 and player 1 the others
board_with_range(lo, hi) ==
    [t \in Territories |->
        [owner |-> IF lo <= t /\ t < hi THEN 0 ELSE 1, armies |-> 1]]

InitReinf ==
    \E lo \in 0 .. NUM_TERRITORIES :
        \E hi \in lo .. NUM_TERRITORIES :
            Start(Tempers(2, "cautious"), board_with_range(lo, hi), 0, "call")

Reinforcements(player) ==
    /\ pc = "call"
    /\ probe' = [op |-> "get_territory_reinforcements", player |-> player,
                 result |-> get_territory_reinforcements(territories, player)]
    /\ UNCHANGED <<boardVars, cardVars, engineVars>>

NextReinf == \E player \in 0 .. (num_players - 1) : Reinforcements(player)

SpecReinf == InitReinf /\ [][NextReinf]_vars

----------------------------------------------------------------------------
(* A game on a board where player 0 holds every territory except one. *)

board_with_holdout(holdout) ==
    [t \in Territories |-> [owner |-> IF t = holdout THEN 1 ELSE 0, armies |-> 1]]

InitEndgame ==
    \E holdout \in Focus :
        Start(Tempers(2, "steady"), board_with_holdout(holdout), 0, "run")

SpecEndgame == InitEndgame /\ [][Next]_vars

----------------------------------------------------------------------------
(* The first turn of a game, for a player whose answers name any of the    *)
(* territories 0..MaxAttackTerr.                                           *)

InitAttack ==
    Start(Tempers(2, "cautious"), distrib_terr_randomly(2, seed_rolls(0)), 0, "run")

\* every way to hand out amt armies over the territories terrs
Splits(amt, terrs) ==
    {chosen \in [terrs -> 0 .. amt] : SumOver(chosen, terrs) = amt}

WideReinf ==
    Splits(reinf_amt,
           get_owned_territories(territories, curr_player) \cap (0 .. MaxAttackTerr))

WideAttacks ==
    [origin : 0 .. MaxAttackTerr, target : 0 .. MaxAttackTerr,
     amount_attacking : 0 .. 3]

NextAttack ==
    \/ turn = 0 /\ RunLoop
    \/ \E chosen \in WideReinf : Reinforce(chosen)
    \/ \E attack \in WideAttacks :
          \E roll \in RollsFor(attack) : AttackPropose(attack, roll)
    \/ \E pick \in (DOMAIN cards) \cup {-1} : AttackDecline(pick)

SpecAttack == InitAttack /\ [][NextAttack]_vars

----------------------------------------------------------------------------
(* The first turn of a game with the fortify phase of the turn engine      *)
(* after the attack phase.  run() of main.rs has no such phase and Move is *)
(* the unit type there; the Move of player/random_player.rs has an origin, *)
(* a destination and an amount.  The phase follows the description of the  *)
(* turn engine: at most one optional move, valid when both territories are *)
(* owned by the player and the amount is below the armies of the origin,   *)
(* applied by transferring the armies; an invalid move is asked again.     *)

\* a variant that lets every army of the origin leave
verify_fortify_all(b, player, move) ==
    /\ get_owner(b, move.origin) = player
    /\ get_owner(b, move.destination) = player
    /\ move.amount <= get_num_armies(b, move.origin)

verify_fortify(b, player, move) ==
    /\ get_owner(b, move.origin) = player
    /\ get_owner(b, move.destination) = player
    /\ move.amount < get_num_armies(b, move.origin)

perform_fortify(b, move) ==
    add_armies(remove_armies(b, move.origin, move.amount),
               move.destination, move.amount)

\* any move over the territories 0..MaxAttackTerr
WideMoves ==
    [origin : 0 .. MaxAttackTerr, destination : 0 .. MaxAttackTerr,
     amount : 0 .. MaxMoveAmount]

\* the moves of RandomPlayer::fortify: from an own territory with more than
\* one army to an adjacent own territory, with 0 .. armies - 2 armies
RandomMoves(b, player) ==
    LET owned == get_owned_territories(b, player) IN
    UNION {{[origin |-> o, destination |-> d, amount |-> n] :
               d \in {x \in owned : are_adjacent(o, x)},
               n \in {k \in 0 .. MaxMoveAmount : k < get_num_armies(b, o) - 1}} :
           o \in {x \in owned : get_num_armies(b, x) > 1}}

\* process_attack: the player answers None, the card of a conquest is
\* drawn, and the turn goes on to its fortify phase
AttackDone(pick) ==
    /\ pc = "attack"
    /\ UNCHANGED <<boardVars, cards, turn, probe, curr_player, trade_necessary,
                   reinf, reinf_amt>>
    /\ attack_info' = <<>>
    /\ conquered_one' = FALSE
    /\ IF conquered_one
       THEN IF draw_aborts(CM)
            THEN /\ pc' = "aborted"
                 /\ last' = Event("attack_none", curr_player, TRUE)
                 /\ UNCHANGED <<available, discarded, player_cards>>
            ELSE /\ pick \in DrawPicks(CM, curr_player)
                 /\ available' = draw_random_for_player(CM, curr_player, pick).available
                 /\ discarded' = draw_random_for_player(CM, curr_player, pick).discarded
                 /\ player_cards' =
                      draw_random_for_player(CM, curr_player, pick).player_cards
                 /\ last' = [Event("attack_none", curr_player, TRUE) EXCEPT !.card = pick]
                 /\ pc' = "fortify"
       ELSE /\ pick = -1
            /\ UNCHANGED <<available, discarded, player_cards>>
            /\ last' = Event("attack_none", curr_player, TRUE)
            /\ pc' = "fortify"

\* the tail of the loop of run(): the cap on the turns, then the next player
TurnEnd ==
    /\ trade_necessary' = FALSE
    /\ reinf' = 0
    /\ reinf_amt' = 0
    /\ IF turn >= MAX_NUM_TURNS
       THEN pc' = "done" /\ UNCHANGED curr_player
       ELSE pc' = "run" /\ curr_player' = next_player

\* the fortify phase: the player answers Some(move)
FortifyPropose(move) ==
    /\ pc = "fortify"
    /\ UNCHANGED <<players, num_players, cardVars, turn, attack_info,
                   conquered_one, probe>>
    /\ LET ev == [Event("fortify", curr_player, FALSE) EXCEPT
                     !.origin = move.origin, !.target = move.destination,
                     !.amount = move.amount]
       IN IF verify_fortify(territories, curr_player, move)
          THEN /\ territories' = perform_fortify(territories, move)
               /\ last' = [ev EXCEPT !.accepted = TRUE]
               /\ TurnEnd
          ELSE /\ last' = ev
               /\ UNCHANGED <<territories, pc, curr_player, trade_necessary,
                              reinf, reinf_amt>>

\* the fortify phase: the player answers None
FortifyDecline ==
    /\ pc = "fortify"
    /\ UNCHANGED <<boardVars, cardVars, turn, attack_info, conquered_one, probe>>
    /\ last' = Event("fortify_none", curr_player, TRUE)
    /\ TurnEnd

NextFortify ==
    \/ turn = 0 /\ RunLoop
    \/ \E chosen \in WideReinf : Reinforce(chosen)
    \/ \E attack \in WideAttacks :
          \E roll \in RollsFor(attack) : AttackPropose(attack, roll)
    \/ \E pick \in (DOMAIN cards) \cup {-1} : AttackDone(pick)
    \/ \E move \in WideMoves \cup RandomMoves(territories, curr_player) :
          FortifyPropose(move)
    \/ FortifyDecline

SpecFortify == InitAttack /\ [][NextFortify]_vars

----------------------------------------------------------------------------
(* Direct calls of the mutators of the board, on the board of a new game.  *)

InitBoard ==
    Start(Tempers(2, "cautious"), distrib_terr_randomly(2, seed_rolls(0)), 0, "call")

BoardCall(op, terr, owner, amount, aborted) ==
    [op |-> op, terr |-> terr, owner |-> owner, amount |-> amount,
     aborted |-> aborted]

\* set_territory(terr, owner, armies)
SetTerritory(terr, owner, armies) ==
    /\ pc = "call"
    /\ IF set_territory_aborts(num_players, owner)
       THEN /\ probe' = BoardCall("set_territory", terr, owner, armies, TRUE)
            /\ UNCHANGED territories
       ELSE /\ probe' = BoardCall("set_territory", terr, owner, armies, FALSE)
            /\ territories' = set_territory(territories, terr, owner, armies)
    /\ UNCHANGED <<players, num_players, cardVars, engineVars>>

\* add_armies(tid, add)
AddArmies(tid, add) ==
    /\ pc = "call"
    /\ get_num_armies(territories, tid) + add <= MaxBoardArmies
    /\ IF set_territory_aborts(num_players, get_owner(territories, tid))
       THEN /\ probe' = BoardCall("add_armies", tid, -1, add, TRUE)
            /\ UNCHANGED territories
       ELSE /\ probe' = BoardCall("add_armies", tid, -1, add, FALSE)
            /\ territories' = add_armies(territories, tid, add)
    /\ UNCHANGED <<players, num_players, cardVars, engineVars>>

\* remove_armies(tid, remove)
RemoveArmies(tid, remove) ==
    /\ pc = "call"
    /\ IF \/ remove_armies_aborts(territories, tid, remove)
          \/ set_territory_aborts(num_players, get_owner(territories, tid))
       THEN /\ probe' = BoardCall("remove_armies", tid, -1, remove, TRUE)
            /\ UNCHANGED territories
       ELSE /\ probe' = BoardCall("remove_armies", tid, -1, remove, FALSE)
            /\ territories' = remove_armies(territories, tid, remove)
    /\ UNCHANGED <<players, num_players, cardVars, engineVars>>

NextBoard ==
    \/ \E terr \in 0 .. MaxBoardTerr, owner \in 0 .. (num_players + 1),
          armies \in 0 .. MaxBoardArmies : SetTerritory(terr, owner, armies)
    \/ \E tid \in 0 .. MaxBoardTerr, add \in 0 .. MaxBoardArmies : AddArmies(tid, add)
    \/ \E tid \in 0 .. MaxBoardTerr, remove \in 0 .. MaxBoardArmies :
          RemoveArmies(tid, remove)

SpecBoard == InitBoard /\ [][NextBoard]_vars

----------------------------------------------------------------------------
(* Direct calls of the two queries of the map of a new game.               *)

\* are_adjacent(a, b)
AreAdjacent(a, b) ==
    /\ pc = "call"
    /\ probe' = [op |-> "are_adjacent", a |-> a, b |-> b,
                 result |-> are_adjacent(a, b)]
    /\ UNCHANGED <<boardVars, cardVars, engineVars>>

\* get_neighbors(t)
GetNeighbors(t) ==
    /\ pc = "call"
    /\ probe' = [op |-> "get_neighbors", t |-> t, result |-> get_neighbors(t)]
    /\ UNCHANGED <<boardVars, cardVars, engineVars>>

NextMap ==
    \/ \E a \in Territories, b \in Territories : AreAdjacent(a, b)
    \/ \E t \in Territories : GetNeighbors(t)

SpecMap == InitBoard /\ [][NextMap]_vars

----------------------------------------------------------------------------
(* A game of three players on a board where one of them owns nothing.      *)

\* the territories dealt in turn to the players other than `absent`
board_without(n, absent) ==
    [t \in Territories |->
        [owner |-> LET k == t % (n - 1) IN IF k >= absent THEN k + 1 ELSE k,
         armies |-> 1]]

InitDefeated ==
    \E absent \in 0 .. 2 :
        Start(Tempers(3, "steady"), board_without(3, absent), 0, "run")

SpecDefeated == InitDefeated /\ [][Next]_vars

----------------------------------------------------------------------------
(* Direct calls of perform_battle, for attacks that verify_battle accepts, *)
(* from territory 0 of player 0 on territory 1 of player 1.                *)

board_for_battle(origin_armies, target_armies) ==
    [t \in Territories |->
        [owner |-> t % 2,
         armies |-> IF t = 0 THEN origin_armies
                    ELSE IF t = 1 THEN target_armies ELSE 1]]

InitBattle ==
    \E oa \in 1 .. MaxOriginArmies, ta \in 1 .. MaxTargetArmies :
        Start(Tempers(2, "cautious"), board_for_battle(oa, ta), 0, "call")

\* perform_battle(attack) when the random draw is roll / 10000
Battle(attack, roll) ==
    /\ pc = "call"
    /\ attack.amount_attacking > 0
    /\ verify_battle(territories, 0, attack)
    /\ LET r == perform_battle(territories, attack, roll) IN
       /\ territories' = r.board
       /\ probe' = [op |-> "perform_battle",
                    attacking |-> attack.amount_attacking,
                    defending |-> defending_allowed(
                                      get_num_armies(territories, attack.target)),
                    roll |-> roll,
                    outcome |-> r.outcome,
                    conquered |-> r.conquered,
                    aborted |-> r.aborted]
    /\ UNCHANGED <<players, num_players, cardVars, engineVars>>

NextBattle ==
    \E amount \in 1 .. 3 :
        \E roll \in Rolls(battle_dist(amount,
                              defending_allowed(get_num_armies(territories, 1)))) :
            Battle([origin |-> 0, target |-> 1, amount_attacking |-> amount], roll)

SpecBattle == InitBattle /\ [][NextBattle]_vars

----------------------------------------------------------------------------
(* Direct calls of the CardManager operations on a manager built by        *)
(* CardManager::new over a short catalog.                                  *)

\* a catalog of k cards: territory cards, and a wild as the last one
short_catalog(k) ==
    [i \in 0 .. (k - 1) |->
        IF i = k - 1 THEN Wild ELSE TerritoryCard(i, from_usize(i % 3))]

InitCards ==
    \E k \in 0 .. MaxCatalog :
        StartWith(Tempers(2, "cautious"), distrib_terr_randomly(2, seed_rolls(0)),
                  short_catalog(k), "call")

\* draw_random_for_player(player) when the shuffle puts `pick` first
Draw(player, pick) ==
    /\ pc = "call"
    /\ UNCHANGED <<boardVars, cards, engineVars>>
    /\ IF draw_aborts(CM)
       THEN /\ pick = -1
            /\ probe' = [op |-> "draw_random_for_player", player |-> player,
                         card |-> pick, aborted |-> TRUE]
            /\ UNCHANGED <<available, discarded, player_cards>>
       ELSE /\ pick \in draw_choices(CM)
            /\ probe' = [op |-> "draw_random_for_player", player |-> player,
                         card |-> pick, aborted |-> FALSE]
            /\ available' = draw_random_for_player(CM, player, pick).available
            /\ discarded' = draw_random_for_player(CM, player, pick).discarded
            /\ player_cards' = draw_random_for_player(CM, player, pick).player_cards

Discard(player, cid) ==
    /\ pc = "call"
    /\ UNCHANGED <<boardVars, cards, engineVars>>
    /\ probe' = [op |-> "player_discard_card", player |-> player,
                 card |-> cid, aborted |-> FALSE]
    /\ available' = player_discard_card(CM, player, cid).available
    /\ discarded' = player_discard_card(CM, player, cid).discarded
    /\ player_cards' = player_discard_card(CM, player, cid).player_cards

\* a reference to card id under the catalog's value, or under another value
\* when `wrong`
Ref(id, wrong) ==
    <<IF wrong
      THEN (IF is_wild(cards[id]) THEN TerritoryCard(0, "Infantry") ELSE Wild)
      ELSE cards[id],
      id>>

\* three references by non-decreasing id, the first one under a right or a
\* wrong value
HasInputs ==
    {<<Ref(t[1], w), Ref(t[2], FALSE), Ref(t[3], FALSE)>> :
        t \in {u \in (DOMAIN cards) \X (DOMAIN cards) \X (DOMAIN cards) :
                  u[1] <= u[2] /\ u[2] <= u[3]},
        w \in BOOLEAN}

Has3Cards(player, trade) ==
    /\ pc = "call"
    /\ UNCHANGED <<boardVars, cardVars, engineVars>>
    /\ probe' = [op |-> "player_has_3_cards", player |-> player, trade |-> trade,
                 result |-> player_has_3_cards(cards, CM, player, trade)]

NextCards ==
    \/ \E player \in DOMAIN player_cards :
          \E pick \in (DOMAIN cards) \cup {-1} : Draw(player, pick)
    \/ \E player \in DOMAIN player_cards :
          \E cid \in DOMAIN cards : Discard(player, cid)
    \/ \E trade \in HasInputs : Has3Cards(0, trade)

SpecCards == InitCards /\ [][NextCards]_vars

----------------------------------------------------------------------------
(* Properties. *)

Players == 0 .. (num_players - 1)

\* the engine is about to ask a player, or a turn or the game has just ended
DecisionPoint == pc \in {"run", "trade", "reinforce", "attack", "done"}

\* the last decision was a validated attack that conquered its target
JustConquered == last.op = "attack" /\ last.accepted /\ last.conquered

\* C1: in every reachable state of a game every territory id in [0,42) has
\* exactly one owner, a valid player id in [0,num_players): the sets
\* get_owned_territories(p) are pairwise disjoint and their union is the
\* full territory range.
C1_TerritoriesPartitioned ==
    /\ DOMAIN territories = Territories
    /\ \A t \in Territories : get_owner(territories, t) \in Players
    /\ UNION {get_owned_territories(territories, p) : p \in Players} = Territories
    /\ \A p \in Players : \A q \in Players \ {p} :
          get_owned_territories(territories, p)
             \cap get_owned_territories(territories, q) = {}

\* a game that ran to its last turn after a conquest earned player 0 a card
C1_Witness ==
    /\ pc = "done"
    /\ turn = MAX_NUM_TURNS
    /\ player_cards[0] # {}

\* C2: at every decision point (a trade, reinforcement or attack prompt) and
\* at the end of every turn, every territory holds at least 1 army, whatever
\* validated proposals came before.
C2_ArmiesAtLeastOne ==
    DecisionPoint => \A t \in Territories : get_num_armies(territories, t) >= 1

\* the attack prompt right after a conquest that left the origin with 1 army
C2_Witness ==
    /\ pc = "attack"
    /\ JustConquered
    /\ get_num_armies(territories, last.origin) = 1

\* C3: when a validated battle reduces the target to zero armies, ownership
\* of the target passes to the attacker: right after perform_battle returns
\* true, get_owner(target) is the owner of the origin.
C3_ConquestTransfersOwnership ==
    JustConquered =>
        get_owner(territories, last.target) = get_owner(territories, last.origin)

\* C4: on a conquest exactly amount_attacking - attacker_losses armies move
\* from the origin into the target, which ends with exactly that many, and
\* no validated battle leaves the origin with 0 armies.
C4_ConquestMovesArmies ==
    [][(/\ pc = "attack"
        /\ pc' = "attack"
        /\ last'.op = "attack"
        /\ last'.accepted)
       => /\ get_num_armies(territories', last'.origin) >= 1
          /\ last'.conquered =>
                /\ get_num_armies(territories', last'.target)
                      = last'.amount - last'.att_loss
                /\ get_num_armies(territories', last'.origin)
                      = get_num_armies(territories, last'.origin) - last'.att_loss
                           - (last'.amount - last'.att_loss)]_vars

\* a conquest with three armies, all three of them now in the target
C4_Witness ==
    /\ JustConquered
    /\ last.amount = 3
    /\ get_num_armies(territories, last.target) = 3
    /\ get_num_armies(territories, last.origin) >= 1

\* C5: in a 2-player game where A holds every territory but one, once A's
\* attack has taken that last territory, the next check of the run loop finds
\* game_is_over() true and player_is_defeated(B) true, and the loop stops
\* without giving B another turn.
C5_EndgameStops ==
    [][(/\ pc = "run"
        /\ num_players = 2
        /\ last.op = "attack_none"
        /\ last.card # -1
        /\ last.player # curr_player
        /\ get_num_owned_territories(territories, curr_player) <= 1)
       => /\ game_is_over(territories)
          /\ player_is_defeated(territories, curr_player)
          /\ pc' = "done"]_vars

\* C6: for every board and player, get_territory_reinforcements(p) is
\* max(floor(owned_count(p) / 3), 3) plus the bonuses of the continents p
\* fully owns.
C6_ReinforcementFormula ==
    probe.op = "get_territory_reinforcements" =>
        probe.result
          = Max(get_num_owned_territories(territories, probe.player) \div 3, 3)
            + get_continent_bonuses(territories, probe.player)

\* C7: get_territory_reinforcements(p) is never below 3, whatever p owns;
\* without a full continent, 9 territories give exactly 3 and 2 give
\* exactly 3.
C7_ReinforcementFloor ==
    probe.op = "get_territory_reinforcements" =>
        /\ probe.result >= 3
        /\ (/\ get_continent_bonuses(territories, probe.player) = 0
            /\ get_num_owned_territories(territories, probe.player) \in {2, 9})
           => probe.result = 3

\* a player with 9 territories and no continent was given 3
C7_Witness ==
    /\ probe.op = "get_territory_reinforcements"
    /\ Cardinality({t \in Territories : territories[t].owner = probe.player}) = 9
    /\ get_continent_bonuses(territories, probe.player) = 0
    /\ probe.result = 3

\* the positions of the wild cards of a trade, and the symbol at a position
WildAt(trade) == {i \in 1 .. 3 : trade[i][1].kind = "Wild"}

SymbolAt(trade, i) == trade[i][1].sym

\* the value the rules give three cards of one symbol
UniformValue(sym) ==
    IF sym = "Infantry" THEN 4 ELSE IF sym = "Cavalry" THEN 6 ELSE 8

AllSame(trade, at) == \A i \in at : \A j \in at : SymbolAt(trade, i) = SymbolAt(trade, j)

AllDifferent(trade, at) ==
    \A i \in at : \A j \in at \ {i} : SymbolAt(trade, i) # SymbolAt(trade, j)

\* C8: with exactly one wild, value() is the uniform value of the shared
\* symbol whenever the two other cards have the same symbol, for any two
\* territory cards, and 10 when their symbols differ, wherever the wild is.
C8_OneWildValue ==
    (/\ probe.op = "value"
     /\ Cardinality(WildAt(probe.trade)) = 1)
    => LET rest == (1 .. 3) \ WildAt(probe.trade) IN
       /\ ~probe.aborted
       /\ AllSame(probe.trade, rest)
             => probe.result = UniformValue(SymbolAt(probe.trade, CHOOSE i \in rest : TRUE))
       /\ ~AllSame(probe.trade, rest) => probe.result = 10

\* C9: without a wild, value() is 4, 6 or 8 for three Infantry, Cavalry or
\* Artillery and 10 for three pairwise distinct symbols; with exactly two
\* wilds it is 10 whatever the third card is.
C9_PlainAndTwoWildValue ==
    probe.op = "value" =>
        /\ (WildAt(probe.trade) = {} /\ AllSame(probe.trade, 1 .. 3))
              => /\ ~probe.aborted
                 /\ probe.result = UniformValue(SymbolAt(probe.trade, 1))
        /\ (WildAt(probe.trade) = {} /\ AllDifferent(probe.trade, 1 .. 3))
              => (~probe.aborted /\ probe.result = 10)
        /\ Cardinality(WildAt(probe.trade)) = 2
              => (~probe.aborted /\ probe.result = 10)

\* three Artillery cards of more than one territory were valued 8
C9_Witness ==
    /\ probe.op = "value"
    /\ WildAt(probe.trade) = {}
    /\ \A i \in 1 .. 3 : SymbolAt(probe.trade, i) = "Artillery"
    /\ probe.trade[1][1].terr # probe.trade[2][1].terr
    /\ probe.result = 8

\* C10: is_set() is true iff the three cards hold at least one wild, or hold
\* none and their symbols are all identical or pairwise distinct; two
\* matching symbols and a different one are never a set, in any order.
C10_IsSet ==
    probe.op = "is_set" =>
        (probe.result
           <=> \/ WildAt(probe.trade) # {}
               \/ /\ WildAt(probe.trade) = {}
                  /\ \/ AllSame(probe.trade, 1 .. 3)
                     \/ AllDifferent(probe.trade, 1 .. 3))

\* two Infantry and a Cavalry, the odd one in the middle, were no set
C10_Witness ==
    /\ probe.op = "is_set"
    /\ WildAt(probe.trade) = {}
    /\ SymbolAt(probe.trade, 1) = "Infantry"
    /\ SymbolAt(probe.trade, 2) = "Cavalry"
    /\ SymbolAt(probe.trade, 3) = "Infantry"
    /\ probe.result = FALSE

\* C11: for every triple of cards that can be put in a Trade, three wild
\* references included, value() returns without aborting, the number is one
\* of 0, 4, 6, 8, 10, and it is 0 exactly when is_set() is false.
C11_ValueTotal ==
    probe.op = "value" =>
        /\ ~probe.aborted
        /\ probe.result \in {0, 4, 6, 8, 10}
        /\ (probe.result = 0) <=> ~is_set(probe.trade)

\* C12: after any sequence of draws, discards and recycles driven by the
\* turn engine, every card id of the catalog is in exactly one of the
\* available set, the discarded set or exactly one player's hand, so the
\* sizes of the three add up to the catalog size, 44.
C12_CardsPartitioned ==
    /\ \A id \in DOMAIN cards :
          Cardinality({p \in DOMAIN player_cards : id \in player_cards[p]})
            + (IF id \in available THEN 1 ELSE 0)
            + (IF id \in discarded THEN 1 ELSE 0) = 1
    /\ Cardinality(available) + Cardinality(discarded)
         + SumOver([p \in DOMAIN player_cards |-> Cardinality(player_cards[p])],
                   DOMAIN player_cards)
         = NUM_TERRITORIES + NUM_WILD

\* a step that is a call of draw_random_for_player which returned
DrawStep == probe'.op = "draw_random_for_player" /\ ~probe'.aborted

\* C13: draw_random_for_player(p) moves exactly one card from available to
\* p's hand: afterwards the drawn id is no longer in available, p's hand has
\* grown by exactly 1 and every other hand is unchanged.
C13_DrawMovesOneCard ==
    [][DrawStep =>
         /\ probe'.card \notin available'
         /\ Cardinality(player_cards'[probe'.player])
               = Cardinality(player_cards[probe'.player]) + 1
         /\ \A q \in (DOMAIN player_cards) \ {probe'.player} :
               player_cards'[q] = player_cards[q]]_vars

\* the ids held by some player
Held == UNION {player_cards[p] : p \in DOMAIN player_cards}

\* nothing is left to draw: every id is held or lies on the discard pile
PoolExhausted == available \ (Held \cup discarded) = {}

\* C14: when draw_random_for_player is called with nothing left to draw and
\* a non-empty discard pile, the pile is recycled first: afterwards discarded
\* is empty, the drawn card is one of the pile and the rest of the pile is
\* available; with nothing left to draw and an empty pile the call leaves
\* the card state as it was.
C14_RecycleWhenExhausted ==
    [][(probe'.op = "draw_random_for_player" /\ PoolExhausted) =>
         /\ discarded # {} =>
               /\ ~probe'.aborted
               /\ discarded' = {}
               /\ probe'.card \in discarded
               /\ (discarded \ {probe'.card}) \subseteq available'
         /\ discarded = {} =>
               /\ available' = available
               /\ discarded' = discarded
               /\ player_cards' = player_cards]_vars

\* C15: player_discard_card(p, cid) moves cid from p's hand to discarded when
\* p holds cid; when p does not hold it, nothing is added to discarded and
\* available, discarded and all hands are left unchanged.
C15_DiscardOnlyHeld ==
    [][probe'.op = "player_discard_card" =>
         LET p == probe'.player
             cid == probe'.card
         IN /\ available' = available
            /\ \A q \in (DOMAIN player_cards) \ {p} : player_cards'[q] = player_cards[q]
            /\ cid \in player_cards[p] =>
                  /\ player_cards'[p] = player_cards[p] \ {cid}
                  /\ discarded' = discarded \cup {cid}
            /\ cid \notin player_cards[p] =>
                  /\ player_cards'[p] = player_cards[p]
                  /\ discarded' = discarded]_vars

\* player 0 asked to discard an id only player 1 holds, and nothing moved
C15_Witness ==
    /\ probe.op = "player_discard_card"
    /\ probe.player = 0
    /\ probe.card \in player_cards[1]
    /\ probe.card \notin player_cards[0]
    /\ probe.card \notin discarded

\* C16: player_has_3_cards(p, refs) is true iff for each of the three
\* references the id is in p's hand and the claimed card equals the catalog's
\* card for that id; a held id under a wrong value, or an id that p does not
\* hold, makes it false.
C16_HasThreeCards ==
    probe.op = "player_has_3_cards" =>
        (probe.result
           <=> \A i \in 1 .. 3 :
                  /\ probe.trade[i][2] \in player_cards[probe.player]
                  /\ probe.trade[i][1] = cards[probe.trade[i][2]])

\* three held ids, the first under a value the catalog does not give it
C16_Witness ==
    /\ probe.op = "player_has_3_cards"
    /\ \A i \in 1 .. 3 : probe.trade[i][2] \in player_cards[probe.player]
    /\ probe.trade[1][1] # cards[probe.trade[1][2]]
    /\ probe.result = FALSE

\* the step is an answer that its verification turned down
Rejected(op) == last'.op = op /\ ~last'.accepted /\ pc' # "aborted"

\* C17: when a proposed trade (or a refusal to trade), a reinforcement
\* distribution or an attack fails its verification, the board and the card
\* state are as before the proposal and the same player is asked again in the
\* same phase of the same turn.
C17_RejectionChangesNothing ==
    [][(\E op \in {"trade", "trade_none", "reinforce", "attack"} : Rejected(op))
         => /\ territories' = territories
            /\ available' = available
            /\ discarded' = discarded
            /\ player_cards' = player_cards
            /\ curr_player' = curr_player
            /\ last'.player = curr_player
            /\ pc' = pc
            /\ turn' = turn
            /\ reinf' = reinf
            /\ reinf_amt' = reinf_amt
            /\ conquered_one' = conquered_one]_vars

\* a trade was turned down for a player who holds a set
C17_Witness ==
    /\ last.op = "trade"
    /\ ~last.accepted
    /\ pc = "trade"
    /\ ProperTrades(curr_player) # {}

C17_WitnessReinf == last.op = "reinforce" /\ ~last.accepted /\ pc = "reinforce"

C17_WitnessAttack == last.op = "attack" /\ ~last.accepted /\ pc = "attack"

C17_WitnessNone == last.op = "trade_none" /\ ~last.accepted /\ pc = "trade"

\* the step resolves a battle: perform_battle was called
BattleStep == last'.op = "attack" /\ last'.accepted

\* C18: perform_battle is called only for an attack that, on the board as
\* it is when the attack is proposed, leaves from a territory of the current
\* player, asks for at most armies(origin) - 1 armies, goes to a neighbour
\* of the origin on the map, and goes to a territory of another player.
C18_BattleOnlyIfValid ==
    [][BattleStep =>
         LET origin == last'.origin
             target == last'.target
         IN /\ origin \in Territories
            /\ target \in Territories
            /\ territories[origin].owner = curr_player
            /\ territories[origin].armies - 1 >= last'.amount
            /\ \E k \in 1 .. Len(standard_map[origin]) : standard_map[origin][k] = target
            /\ territories[target].owner # curr_player]_vars

\* a battle was resolved, over a target that was conquered
C18_Witness ==
    /\ last.op = "attack"
    /\ last.accepted
    /\ last.conquered
    /\ pc = "attack"

\* the odds table: pools -> thresholds in units of 1/10000
OneLossThreshold ==
    (<<1, 1>> :> 5833) @@ (<<2, 1>> :> 4213) @@ (<<3, 1>> :> 3403) @@ (<<1, 2>> :> 7454)

TwoLossThresholds ==
    (<<2, 2>> :> <<4483, 2276>>) @@ (<<3, 2>> :> <<2926, 3717>>)

\* C19: for the pools (1,1), (2,1), (3,1), (1,2) the attacker loses 1 iff
\* the draw is at most the threshold and the defender loses 1 otherwise; for
\* (2,2) and (3,2) the attacker loses 2 iff the draw is at most t0, the
\* defender loses 2 iff it is above t0 and at most t0 + t1, and both lose 1
\* otherwise.  The losses depend on the pools and the draw only, and a draw
\* equal to a threshold selects the earlier outcome.
C19_OddsTable ==
    probe.op = "perform_battle" =>
        LET pools == <<probe.attacking, probe.defending>>
            d == probe.roll
        IN /\ ~probe.aborted
           /\ pools \in (DOMAIN OneLossThreshold) \cup (DOMAIN TwoLossThresholds)
           /\ pools \in DOMAIN OneLossThreshold =>
                 probe.outcome = IF d <= OneLossThreshold[pools] THEN <<1, 0>> ELSE <<0, 1>>
           /\ pools \in DOMAIN TwoLossThresholds =>
                 LET t0 == TwoLossThresholds[pools][1]
                     t1 == TwoLossThresholds[pools][2]
                 IN probe.outcome = IF d <= t0 THEN <<2, 0>>
                                    ELSE IF d <= t0 + t1 THEN <<0, 2>>
                                    ELSE <<1, 1>>

\* three armies on two, and a draw equal to t0 + t1: the defender loses 2
C19_Witness ==
    /\ probe.op = "perform_battle"
    /\ probe.attacking = 3
    /\ probe.defending = 2
    /\ probe.roll = 6643
    /\ probe.outcome = <<0, 2>>

\* one on one with a draw equal to the threshold: the attacker loses 1
C19_WitnessTie ==
    /\ probe.op = "perform_battle"
    /\ probe.attacking = 1
    /\ probe.defending = 1
    /\ probe.roll = 5833
    /\ probe.outcome = <<1, 0>>

\* the step ends an attack phase: the player answered None
PhaseEnd == last'.op = "attack_none"

\* the cards that player p holds after the step and did not hold before it
Gained(p) == player_cards'[p] \ player_cards[p]

\* C20: at the end of an attack phase the player has drawn exactly one card
\* if a conquest occurred during the phase and no card otherwise, and no
\* hand receives a card at any other point of a turn.
C20_OneCardIffConquest ==
    [][/\ PhaseEnd /\ conquered_one =>
            /\ Cardinality(Gained(curr_player)) = 1
            /\ \A p \in Players \ {curr_player} : Gained(p) = {}
       /\ PhaseEnd /\ ~conquered_one => \A p \in Players : Gained(p) = {}
       /\ ~PhaseEnd => \A p \in Players : Gained(p) = {}]_vars

\* draw_random_for_player is called once at the end of a phase with a
\* conquest and nowhere else
C20_DrawCalledIffConquest ==
    [][/\ PhaseEnd => (last'.card # -1 <=> conquered_one /\ pc' # "aborted")
       /\ ~PhaseEnd => last'.card = -1 /\ \A p \in Players : Gained(p) = {}]_vars

\* the step starts the turn of curr_player
TurnStart == last'.op = "run" /\ turn' = turn + 1

\* the number of cards in the hand of p
HandSize(p) == Cardinality(player_cards[p])

\* C21: with more than 4 cards at the start of the trade phase the trade is
\* mandatory: a None is rejected and the player is asked again, so the phase
\* ends only after an accepted trade.  With fewer than 3 cards the phase is
\* skipped with bonus 0 and the player is not asked; with 3 or 4 cards a None
\* ends the phase.
C21_MandatoryTrade ==
    [][/\ TurnStart =>
            /\ HandSize(curr_player) < 3 =>
                  /\ pc' = "reinforce"
                  /\ reinf' = 0
                  /\ reinf_amt' = get_territory_reinforcements(territories, curr_player)
            /\ HandSize(curr_player) >= 3 =>
                  /\ pc' = "trade"
                  /\ trade_necessary' = (HandSize(curr_player) > 4)
       /\ pc = "trade" /\ pc' = "trade" => trade_necessary' = trade_necessary
       /\ pc = "trade" /\ last'.op = "trade_none" =>
            /\ last'.accepted = ~trade_necessary
            /\ pc' = IF trade_necessary THEN "trade" ELSE "reinforce"
       /\ pc = "trade" /\ pc' = "reinforce" /\ trade_necessary =>
            last'.op = "trade" /\ last'.accepted]_vars

\* a mandatory trade was performed and the phase went on to reinforcement
C21_Witness ==
    /\ trade_necessary
    /\ pc = "reinforce"
    /\ last.op = "trade"
    /\ last.accepted

\* the trade phase of a player with 3 or 4 cards ended with a None
C21_WitnessOptional ==
    /\ ~trade_necessary
    /\ pc = "reinforce"
    /\ last.op = "trade_none"
    /\ HandSize(curr_player) \in {3, 4}

\* the step performs an accepted trade
TradeStep == last'.op = "trade" /\ last'.accepted /\ pc' # "aborted"

\* the card ids that leave the hand of the trading player in the step
Traded == player_cards[curr_player] \ player_cards'[curr_player]

\* the territories of the trading player that a traded card names
NamedOwned ==
    {t \in Territories :
        /\ territories[t].owner = curr_player
        /\ \E c \in Traded : get_territory(cards[c]) = t}

\* the board and the bonus after a trade, as the claim gives them
TradeEffect ==
    /\ \A t \in Territories :
          /\ territories'[t].owner = territories[t].owner
          /\ territories'[t].armies =
                territories[t].armies + (IF t \in NamedOwned THEN 2 ELSE 0)
    /\ \E trade \in TradeProposals(curr_player) :
          /\ {trade[i][2] : i \in 1 .. 3} = Traded
          /\ last'.amount = value(trade)
          /\ reinf' = reinf + value(trade)

\* C22: an accepted trade adds exactly 2 armies to each territory that a
\* traded territory card names and the trading player owns, changes no other
\* army count and no owner, and adds exactly Trade.value() to the player's
\* reinforcements of the turn.
C22_TradeEffect == [][TradeStep => TradeEffect]_vars

\* the same for the trades of three different cards
C22_DistinctTradeEffect ==
    [][TradeStep /\ Cardinality(Traded) = 3 => TradeEffect]_vars

C22_WitnessDistinct ==
    /\ last.op = "trade"
    /\ last.accepted
    /\ Cardinality(discarded) = 3
    /\ \E c \in discarded : get_territory(cards[c]) \in Territories
                              /\ territories[get_territory(cards[c])].owner = last.player

\* the step ends the reinforcement phase
ReinfEnd == pc = "reinforce" /\ pc' \notin {"reinforce", "aborted"}

\* the armies on the territories of p on the board b
ArmiesOf(b, p) ==
    SumOver([t \in Territories |-> b[t].armies], {t \in Territories : b[t].owner = p})

\* C23: the reinforcement phase of p ends only with an accepted
\* distribution, and then the armies on p's territories have grown by
\* exactly get_territory_reinforcements(p) + trade bonus, every touched
\* territory is owned by p, each territory grew by exactly its proposed
\* amount, and no army count of another player's territory and no owner has
\* changed.
C23_ReinforcementEffect ==
    [][ReinfEnd =>
         LET p == curr_player IN
         /\ last'.op = "reinforce"
         /\ last'.accepted
         /\ pc' = "attack"
         /\ ArmiesOf(territories', p)
               = ArmiesOf(territories, p)
                 + get_territory_reinforcements(territories, p) + reinf
         /\ \A t \in Territories :
               /\ territories'[t].owner = territories[t].owner
               /\ territories[t].owner # p => territories'[t].armies = territories[t].armies
         /\ \E chosen \in ReinfProposals(p, reinf_amt) :
               /\ \A t \in DOMAIN chosen : territories[t].owner = p
               /\ \A t \in Territories :
                     territories'[t].armies
                       = territories[t].armies
                         + (IF t \in DOMAIN chosen THEN chosen[t] ELSE 0)]_vars

\* a distribution that includes the bonus of a trade was applied
C23_Witness ==
    /\ last.op = "reinforce"
    /\ last.accepted
    /\ pc = "attack"
    /\ reinf > 0

\* the player after curr_player in the cycle of player ids
Successor == (curr_player + 1) % Cardinality(DOMAIN players)

\* p owns at least one territory
OwnsSome(p) == \E t \in Territories : territories[t].owner = p

\* the step is an answer of a player to a prompt of the engine
Answer == last'.op \in {"trade", "trade_none", "reinforce", "attack", "attack_none"}

\* C24: turns are taken in cyclic player-id order, and a player who owns no
\* territory when its turn would start is skipped: it is never asked for a
\* decision.
C24_CyclicOrderSkippingDefeated ==
    [][/\ curr_player' \in {curr_player, Successor}
       /\ curr_player' # curr_player =>
            \/ last'.op = "attack_none"
            \/ last'.op = "run" /\ ~OwnsSome(curr_player)
       /\ TurnStart => OwnsSome(curr_player) /\ curr_player' = curr_player
       /\ Answer => last'.player = curr_player /\ OwnsSome(curr_player)
       /\ last'.op = "run" /\ pc' # "done" /\ ~OwnsSome(curr_player) =>
            /\ curr_player' = Successor
            /\ turn' = turn
            /\ pc' = "run"]_vars

\* player 1 owns nothing and was passed over: player 2 plays after player 0
C24_Witness ==
    /\ ~OwnsSome(1)
    /\ curr_player = 2
    /\ pc \in {"trade", "reinforce", "attack"}
    /\ turn >= 2

\* the phases of a turn up to the attack phase follow each other in order
PhaseOrder ==
    /\ TurnStart => pc' \in {"trade", "reinforce"}
    /\ pc = "trade" => pc' \in {"trade", "reinforce", "aborted"}
    /\ pc = "reinforce" => pc' \in {"reinforce", "attack", "aborted"}
    /\ pc' = "attack" /\ pc # "attack" =>
          /\ pc = "reinforce"
          /\ last'.op = "reinforce"
          /\ last'.accepted
    /\ pc = "attack" => pc' = "attack" \/ pc' = "aborted" \/ PhaseEnd

\* C25: every turn of a player who is not defeated runs Trade, Reinforce,
\* Attack, Fortify in this order before the next player's turn: the attack
\* phase starts only once the reinforcements are applied, and when the attack
\* phase ends the same player is asked for an optional fortify move.
C25_PhaseOrderWithFortify ==
    [][/\ PhaseOrder
       /\ PhaseEnd /\ pc' # "aborted" =>
            pc' = "fortify" /\ curr_player' = curr_player]_vars

\* the order of the phases that run() has
C25_PhaseOrderUpToAttack == [][PhaseOrder]_vars

\* the step applies a fortify move
FortifyApplied == last'.op = "fortify" /\ last'.accepted

\* C26: a fortify move is applied only if origin and destination are both
\* owned by the moving player and the amount is strictly less than the
\* armies of the origin; applying it moves exactly that many armies from the
\* origin to the destination (the total is unchanged and the origin keeps at
\* least 1), and the phase, entered once per turn, is over after one move.
C26_FortifyMove ==
    [][/\ FortifyApplied =>
            LET o == last'.origin
                d == last'.target
                n == last'.amount
            IN /\ territories[o].owner = curr_player
               /\ territories[d].owner = curr_player
               /\ n < territories[o].armies
               /\ \A t \in Territories :
                     /\ territories'[t].owner = territories[t].owner
                     /\ territories'[t].armies
                          = territories[t].armies
                            - (IF t = o THEN n ELSE 0) + (IF t = d THEN n ELSE 0)
               /\ territories'[o].armies >= 1
               /\ pc' \in {"run", "done"}
       /\ pc = "fortify" /\ ~FortifyApplied => territories' = territories
       /\ pc' = "fortify" /\ pc # "fortify" => pc = "attack" /\ turn' = turn
       /\ pc = "fortify" => turn' = turn]_vars

\* a move of 2 armies between two different territories was applied
C26_Witness ==
    /\ last.op = "fortify"
    /\ last.accepted
    /\ last.origin # last.target
    /\ last.amount = 2
    /\ territories[last.origin].armies >= 1
    /\ territories[last.target].armies >= 3

\* run() has returned or the program has stopped
Stopped == pc \in {"done", "aborted"}

\* one player owns every territory
Won == \A t \in Territories : territories[t].owner = territories[0].owner

\* C27: when the players answer in the end, run() terminates: a turn starts
\* only while the game is not over and fewer than MAX_NUM_TURNS turns were
\* played, so at most 20 turns are ever played, and run() returns only when
\* the game is over or the cap is reached; at the cap the game need not be
\* over.
C27_RunTerminates ==
    /\ [][TurnStart => ~Won /\ turn < MAX_NUM_TURNS]_vars
    /\ [](turn <= MAX_NUM_TURNS)
    /\ [](pc = "done" => Won \/ turn = MAX_NUM_TURNS)
    /\ <>Stopped

\* run() stopped at the cap on a board that is not won
C27_Witness ==
    /\ pc = "done"
    /\ turn = MAX_NUM_TURNS
    /\ ~Won

\* the step is a call of the board mutator op
BoardStep(op) == probe'.op = op

\* C28: set_territory(t, owner, armies) aborts and writes nothing for every
\* owner outside [0, num_players), owner = num_players included; for a valid
\* owner it overwrites territory t with (owner, armies) and changes no other
\* territory.
C28_SetTerritory ==
    [][BoardStep("set_territory") =>
         IF probe'.owner \in 0 .. (num_players - 1)
         THEN /\ ~probe'.aborted
              /\ territories'[probe'.terr] =
                    [owner |-> probe'.owner, armies |-> probe'.amount]
              /\ \A t \in Territories \ {probe'.terr} : territories'[t] = territories[t]
         ELSE /\ probe'.aborted
              /\ territories' = territories]_vars

\* the same with the range that the code checks: owner <= num_players
C28_SetTerritoryAsCoded ==
    [][BoardStep("set_territory") =>
         IF probe'.owner \in 0 .. num_players
         THEN /\ ~probe'.aborted
              /\ territories'[probe'.terr] =
                    [owner |-> probe'.owner, armies |-> probe'.amount]
              /\ \A t \in Territories \ {probe'.terr} : territories'[t] = territories[t]
         ELSE /\ probe'.aborted
              /\ territories' = territories]_vars

\* C29: remove_armies(t, n) aborts and leaves the board as it is when n
\* exceeds armies(t), and otherwise lowers armies(t) by exactly n;
\* add_armies(t, n) raises armies(t) by exactly n; both keep the owner of t
\* and change no other territory.
C29_AddRemoveArmies ==
    [][/\ BoardStep("remove_armies") =>
            IF probe'.amount > territories[probe'.terr].armies
            THEN probe'.aborted /\ territories' = territories
            ELSE /\ ~probe'.aborted
                 /\ territories'[probe'.terr].armies
                       = territories[probe'.terr].armies - probe'.amount
       /\ BoardStep("add_armies") =>
            /\ ~probe'.aborted
            /\ territories'[probe'.terr].armies
                  = territories[probe'.terr].armies + probe'.amount
       /\ BoardStep("remove_armies") \/ BoardStep("add_armies") =>
            /\ territories'[probe'.terr].owner = territories[probe'.terr].owner
            /\ \A t \in Territories \ {probe'.terr} :
                  territories'[t] = territories[t]]_vars

\* a removal of more armies than the territory holds was refused
C29_Witness ==
    /\ probe.op = "remove_armies"
    /\ probe.aborted
    /\ probe.amount = territories[probe.terr].armies + 1
    /\ territories[probe.terr].armies > 0

\* the territories in the answer of get_neighbors(t)
NeighborSet(t) == {get_neighbors(t)[k] : k \in 1 .. Len(get_neighbors(t))}

\* C30: on the standard map, for all territories a and b in [0, 42),
\* are_adjacent(a, b) = are_adjacent(b, a), b is in get_neighbors(a) iff
\* are_adjacent(a, b), and no territory is adjacent to itself.
C30_AdjacencyUndirected ==
    /\ probe.op = "are_adjacent" =>
          /\ probe.result = are_adjacent(probe.b, probe.a)
          /\ probe.result = (probe.b \in NeighborSet(probe.a))
          /\ probe.result = (probe.a \in NeighborSet(probe.b))
          /\ probe.a = probe.b => ~probe.result
    /\ probe.op = "get_neighbors" =>
          /\ probe.t \notin {probe.result[k] : k \in 1 .. Len(probe.result)}
          /\ \A k \in 1 .. Len(probe.result) :
                /\ probe.result[k] \in Territories
                /\ are_adjacent(probe.result[k], probe.t)

\* Kamchatka is adjacent to Mongolia, though only Mongolia lists the other
C30_Witness ==
    /\ probe.op = "are_adjacent"
    /\ probe.a = 11
    /\ probe.b = 13
    /\ probe.result
    /\ \A k \in 1 .. Len(neighbors(11)) : neighbors(11)[k] # 13

\* C31: every attack that passes verify_battle is resolved with an attacking
\* pool in {1, 2, 3} and a defending pool in {1, 2}, a pair of the odds
\* table; a proposal for 0 or for more than 3 armies is rejected and asked
\* again, and does not abort the program.
C31_PoolsInOddsTable ==
    [][BattleStep =>
         /\ last'.amount \in 1 .. 3
         /\ defending_allowed(territories[last'.target].armies) \in 1 .. 2
         /\ pc' # "aborted"]_vars

\* the same for the attacks that ask for 1, 2 or 3 armies
C31_PoolsOfProperAmounts ==
    [][BattleStep /\ last'.amount \in 1 .. 3 =>
         /\ defending_allowed(territories[last'.target].armies) \in 1 .. 2
         /\ pc' # "aborted"]_vars

\* C32: every trade that verify_trade accepts names three different card
\* ids: performing it takes exactly 3 cards out of the hand of the trading
\* player and puts exactly those 3 cards on the discard pile.
C32_TradeOfThreeCards ==
    [][TradeStep =>
         /\ Cardinality(Traded) = 3
         /\ Traded \subseteq player_cards[curr_player]
         /\ player_cards'[curr_player] = player_cards[curr_player] \ Traded
         /\ discarded' = discarded \cup Traded
         /\ \A p \in Players \ {curr_player} : player_cards'[p] = player_cards[p]]_vars

\* the territories in the adjacent-enemy list of the entry e
EnemiesOf(e) == {e.adj_enemies[k] : k \in 1 .. Len(e.adj_enemies)}

\* the entry of the origin in the working map after a battle
OriginRefreshed ==
    LET origin == last'.origin IN
    IF territories'[origin].armies = 1
    THEN origin \notin DOMAIN attack_info'
    ELSE /\ origin \in DOMAIN attack_info'
         /\ attack_info'[origin].armies = territories'[origin].armies

\* C33: after a conquest the conquered target is in the adjacent-enemy list
\* of no entry of the working map at the next attack prompt; and after any
\* battle the entry of the origin is removed when the origin holds exactly 1
\* army and carries the current army count of the origin otherwise.
C33_WorkingMapUpdated ==
    [][BattleStep /\ pc' = "attack" =>
         /\ OriginRefreshed
         /\ last'.conquered =>
               \A t \in DOMAIN attack_info' :
                  last'.target \notin EnemiesOf(attack_info'[t])]_vars

\* the part of it about the entry of the origin
C33_OriginRefreshed == [][BattleStep /\ pc' = "attack" => OriginRefreshed]_vars

----------------------------------------------------------------------------
(* The first turn of a game for a player whose answers also name territory *)
(* ids that are not on the board: TerritoryId is u8, so a Reinforcement or *)
(* an Attack may hold any id up to MaxTerritoryId.                         *)

MaxTerritoryId == 255

StrayIds == {NUM_TERRITORIES, MaxTerritoryId}

\* distributions over the first owned territories, and over one of them and
\* an id that is not on the board
StrayReinf ==
    WideReinf
    \cup UNION {Splits(reinf_amt, {t, s}) :
                  t \in Lowest(get_owned_territories(territories, curr_player)),
                  s \in StrayIds}

StrayAttacks ==
    [origin : (0 .. MaxStrayTerr) \cup StrayIds,
     target : (0 .. MaxStrayTerr) \cup StrayIds,
     amount_attacking : 0 .. 3]

NextStray ==
    \/ turn = 0 /\ RunLoop
    \/ \E chosen \in StrayReinf : Reinforce(chosen)
    \/ \E attack \in StrayAttacks :
          \E roll \in RollsFor(attack) : AttackPropose(attack, roll)
    \/ \E pick \in (DOMAIN cards) \cup {-1} : AttackDecline(pick)

SpecStray == InitAttack /\ [][NextStray]_vars

\* the player answers a distribution that names an id off the board
OffBoardReinf ==
    \E chosen \in StrayReinf :
        (DOMAIN chosen) \cap StrayIds # {} /\ Reinforce(chosen)

\* the player answers an attack with an id off the board, or from an origin
\* that has no entry in the working map
OffBoardAttack ==
    \E attack \in StrayAttacks :
        /\ \/ attack.origin \in StrayIds
           \/ attack.target \in StrayIds
           \/ attack.origin \notin DOMAIN attack_info
        /\ \E roll \in RollsFor(attack) : AttackPropose(attack, roll)

RePrompted == ~last'.accepted /\ pc' = pc /\ UNCHANGED <<boardVars, cardVars>>

\* C34: a reinforcement distribution or an attack that names a territory id
\* outside [0, 42), or an attack whose origin has no entry in the working
\* map, is rejected: the same prompt is made again and neither the board nor
\* the cards change; the engine does not abort.
C34_OffBoardProposalRejected ==
    [][OffBoardReinf \/ OffBoardAttack => RePrompted]_vars

\* what holds of it: an attack of 1 to 3 armies from a territory on the board
\* is rejected when its target is off the board or its origin has no entry
C34_OffBoardTargetRejected ==
    [][\A attack \in StrayAttacks :
          /\ attack.origin \in Territories
          /\ attack.amount_attacking > 0
          /\ attack.target \in StrayIds \/ attack.origin \notin DOMAIN attack_info
          /\ \E roll \in RollsFor(attack) : AttackPropose(attack, roll)
          => RePrompted]_vars

----------------------------------------------------------------------------
(* Direct calls of StandardGameBoard::randomly_distributed. *)

\* randomly_distributed(n) where the random source gives `rolls`
RandomlyDistributed(n, rolls) ==
    /\ pc = "call"
    /\ pc' = "built"
    /\ territories' = distrib_terr_randomly(n, rolls)
    /\ num_players' = n
    /\ probe' = [op |-> "randomly_distributed", num_players |-> n]
    /\ UNCHANGED <<players, cardVars, curr_player, turn, trade_necessary, reinf,
                   reinf_amt, attack_info, conquered_one, last>>

\* the random number drawn for territory i is a + b * i
NextDistrib ==
    \E n \in 1 .. NUM_TERRITORIES, a \in 0 .. MaxRoll, b \in 0 .. MaxRoll :
        RandomlyDistributed(n, [i \in Territories |-> a + b * i])

SpecDistrib == InitBoard /\ [][NextDistrib]_vars

Distributed == probe.op = "randomly_distributed"

\* C35: the board of randomly_distributed(n), 1 <= n <= 42, gives every
\* territory an owner among the players 0 .. n-1 and exactly 1 army, and the
\* numbers of territories of any two players differ by at most 1.
C35_EvenDistribution ==
    Distributed =>
        /\ \A t \in Territories :
              /\ territories[t].owner \in 0 .. (num_players - 1)
              /\ territories[t].armies = 1
        /\ \A p, q \in 0 .. (num_players - 1) :
              get_num_owned_territories(territories, p)
                 <= get_num_owned_territories(territories, q) + 1

\* five players: two of them get 9 territories and three get 8, and the
\* owners are not dealt in the order of the ids
C35_Witness ==
    /\ Distributed
    /\ num_players = 5
    /\ \E p, q \in 0 .. 4 :
          /\ get_num_owned_territories(territories, p) = 9
          /\ get_num_owned_territories(territories, q) = 8
    /\ territories[0].owner # 0

\* no hand holds more than 5 cards
HandsAtMostFive == \A p \in Players : HandSize(p) <= 5

\* a hand grows by one card at most, and only when its owner ends an attack
\* phase
OneCardPerTurn ==
    \A p \in Players :
        /\ Cardinality(player_cards'[p]) <= HandSize(p) + 1
        /\ Cardinality(player_cards'[p]) > HandSize(p) => PhaseEnd /\ p = curr_player

\* C36: no hand ever holds more than 5 cards: a hand gains one card per turn
\* at most, at the end of the attack phase of its owner, and a trade from a
\* hand of 5 brings the hand to 2, so that the hand of a player who had to
\* trade is 2 when the attack phase ends.
C36_HandAtMostFive ==
    [][/\ HandsAtMostFive'
       /\ OneCardPerTurn
       /\ TradeStep /\ HandSize(curr_player) = 5 =>
             Cardinality(player_cards'[curr_player]) = 2
       /\ PhaseEnd /\ trade_necessary => HandSize(curr_player) = 2]_vars

\* what holds of it: the bound, the one card per turn, and a hand below 3
\* after a mandatory trade phase
C36_HandBounded ==
    [][/\ HandsAtMostFive'
       /\ OneCardPerTurn
       /\ PhaseEnd /\ trade_necessary => HandSize(curr_player) < 3]_vars

\* a trade of three different cards from a hand of 5
C36_WitnessProper ==
    /\ last.op = "trade" /\ last.accepted /\ trade_necessary
    /\ HandSize(curr_player) = 2

C36_WitnessFive == pc = "trade" /\ trade_necessary /\ HandSize(curr_player) = 5

\* the armies on the board b
TotalArmies(b) == SumOver([t \in Territories |-> b[t].armies], Territories)

\* a battle that ran to its end
Performed == BattleStep /\ pc' # "aborted"

Smaller(a, b) == IF a <= b THEN a ELSE b

\* C37: a performed battle lowers the armies on the board by the losses of
\* the two sides together, which are 1 or 2 and as many as the smaller of
\* the attacking pool and the defending pool (2 at most of the armies of the
\* target); it changes the army count of no territory but the origin and the
\* target, and the owner of none.  So the armies on the board go down with
\* every battle of an attack phase.
C37_BattleLosses ==
    [][Performed =>
         LET losses == last'.att_loss + last'.def_loss
             defending == Smaller(2, territories[last'.target].armies)
         IN /\ losses \in 1 .. 2
            /\ losses = Smaller(last'.amount, defending)
            /\ TotalArmies(territories') = TotalArmies(territories) - losses
            /\ TotalArmies(territories') < TotalArmies(territories)
            /\ \A t \in Territories :
                  /\ territories'[t].owner = territories[t].owner
                  /\ t \notin {last'.origin, last'.target} =>
                        territories'[t].armies = territories[t].armies]_vars

\* a battle of 3 against 2 where each side has lost one army
C37_Witness ==
    /\ last.op = "attack" /\ last.accepted /\ pc = "attack"
    /\ last.amount = 3
    /\ last.att_loss = 1 /\ last.def_loss = 1

----------------------------------------------------------------------------
(* The trade phase of a player who starts the turn with a hand of 5 cards. *)

\* the hands of 5 of the first territory cards and the two wilds
Hands ==
    {hand \in SUBSET ((0 .. MaxHandId)
                        \cup (NUM_TERRITORIES .. (NUM_TERRITORIES + NUM_WILD - 1))) :
        Cardinality(hand) = 5}

\* the draws of the earlier turns have given player 0 the cards of `hand`;
\* a draw takes nothing out of `available`
Deal(hand) ==
    /\ pc = "call"
    /\ pc' = "run"
    /\ player_cards' = [player_cards EXCEPT ![0] = hand]
    /\ UNCHANGED <<boardVars, cards, available, discarded, curr_player, turn,
                   trade_necessary, reinf, reinf_amt, attack_info, conquered_one,
                   last, probe>>

NextHand ==
    \/ \E hand \in Hands : Deal(hand)
    \/ turn = 0 /\ RunLoop
    \/ TradeDecline
    \/ \E trade \in ProperTrades(curr_player) : TradePropose(trade)

SpecHand == InitTrade /\ [][NextHand]_vars

\* the triples of the hand of p that are a set and pass player_has_3_cards
SetTriples(p) ==
    {trade \in ProperTrades(p) :
        is_set(trade) /\ player_has_3_cards(cards, CM, p, trade)}

\* a compliant player answers such a triple
CompliantTrade == \E trade \in SetTriples(curr_player) : TradePropose(trade)

SpecHandFair == SpecHand /\ WF_vars(CompliantTrade)

MandatoryTrade == pc = "trade" /\ HandSize(curr_player) = 5

\* C38: a hand of 5 different cards of the standard catalog makes the trade
\* mandatory and holds three cards that are a set and pass
\* player_has_3_cards; the trade of any such three cards is accepted and
\* ends the trade phase, so the phase of a player who answers such a trade
\* comes to its end.
C38_MandatoryTradeSatisfiable ==
    /\ [](MandatoryTrade => trade_necessary /\ SetTriples(curr_player) # {})
    /\ [][MandatoryTrade /\ CompliantTrade =>
            last'.accepted /\ pc' = "reinforce"]_vars
    /\ (MandatoryTrade ~> pc = "reinforce")

\* the mandatory trade of a hand of two wilds and three cards that are no
\* set has ended the phase
C38_Witness ==
    /\ pc = "reinforce" /\ trade_necessary
    /\ last.op = "trade" /\ last.accepted
    /\ player_cards[0] \cup discarded = {0, 1, 3, NUM_TERRITORIES, NUM_TERRITORIES + 1}
    /\ HandSize(0) = 2

\* C39: at every attack prompt the working map agrees with the board: the
\* territory of every entry is owned by the current player and its cached
\* army count is the count on the board, every territory in its list of
\* adjacent enemies is adjacent to it and owned by another player, and every
\* territory of the player with 2 armies or more has an entry.
C39_WorkingMapAgrees ==
    pc = "attack" =>
        /\ \A t \in DOMAIN attack_info :
              /\ attack_info[t].id = t
              /\ territories[t].owner = curr_player
              /\ attack_info[t].armies = territories[t].armies
              /\ \A e \in EnemiesOf(attack_info[t]) :
                    /\ are_adjacent(t, e)
                    /\ territories[e].owner # curr_player
        /\ \A t \in Territories :
              territories[t].owner = curr_player /\ territories[t].armies >= 2
                 => t \in DOMAIN attack_info

\* the prompt after a battle that the origin lost: its entry carries the
\* lowered count
C39_Witness ==
    /\ pc = "attack"
    /\ last.op = "attack" /\ last.accepted /\ last.att_loss > 0
    /\ last.origin \in DOMAIN attack_info
    /\ attack_info[last.origin].armies = 2

\* the prompt after a conquest that left the origin with 1 army: its entry
\* is gone
C39_WitnessRemoved ==
    /\ pc = "attack"
    /\ last.op = "attack" /\ last.conquered
    /\ territories[last.origin].armies = 1
    /\ last.origin \notin DOMAIN attack_info

====
